---- MODULE Spec2Model ----
(***************************************************************************)
(* Model of the news-scrapping service: the Scheduler (single-flight job   *)
(* state machine, internal/scheduler), the HTTP trigger handler            *)
(* (internal/api), the concurrent aggregator (internal/scraper) and the    *)
(* ranking client / processor (internal/ai).                               *)
(*                                                                         *)
(* The specifications of the module:                                       *)
(*   Spec        the started Scheduler, its cron and a direct manual call  *)
(*   SpecHttp    the handlers' Scheduler and two POST /trigger requests    *)
(*   SpecProcess both Schedulers side by side                              *)
(*   SpecPreview POST /trigger and GET /latest on the handlers             *)
(*   SpecStages  a scheduled run and a preview, stage by stage             *)
(*   SpecScrape  one ScrapeNewsByType call with its per-source goroutines  *)
(*   SpecCurate  one ProcessNewsItemsByType call on a decoded response     *)
(*   SpecParse   the handling of one ranking response text                 *)
(***************************************************************************)
EXTENDS Integers, Sequences, FiniteSets, Bags, TLC

VARIABLES
    \* ---- Scheduler (one entry per Scheduler instance)
    now,        \* time.Now(), in hours since the epoch of the model
    started,    \* Start() was called on the instance
    running,    \* Scheduler.running
    jobStatus,  \* *Scheduler.jobStatus
    \* ---- goroutines that call into a Scheduler
    pc,         \* position of each job goroutine
    newsType,   \* the newsType argument of the job
    outcome,    \* what the single-flight guard answered to the job
    count,      \* len(newsResponse.News) held by the job
    retErr,     \* the error executeNewsJobByType returned to the job
    resp,       \* HTTP status the handler wrote for the request
    calls,      \* per goroutine: calls made to the external collaborators
    \* ---- one ScrapeNewsByType call
    srcOut,     \* what ScrapeNewsFromSource returns for each source
    spc,        \* position of each per-source goroutine
    mu,         \* holder of the local sync.Mutex
    slot,       \* per goroutine: the slice value append() read
    allNews,    \* the merged buffer
    errChan,    \* the buffered error channel
    scrapeRet,  \* the return value of ScrapeNewsByType
    \* ---- one curation call
    cfgMax,     \* Config.MaxNewsItems, as config.Load read it
    aiResp,     \* the decoded ranking response handed to the client
    curated,    \* the result of the curation call
    \* ---- the handling of one ranking response text
    rawText,    \* the text of the first candidate, as the service sent it
    parsed,     \* what the response handling made of it
    \* ---- one fetch of one feed
    feedIn,     \* the category asked for and what the feed parser returns
    feedOut,    \* what the fetch returns
    \* ---- the building of one ranking request
    reqIn,      \* the category and the items handed to the client
    reqOut,     \* the items marshalled into the request
    \* ---- one updateNextRunTime call in a time zone
    zoneIn,     \* the zone of Config.Timezone and time.Now()
    zoneOut,    \* the instant computed and the NextRun text
    \* ---- the JobStatus of one Scheduler, field by field
    statusMu,   \* Scheduler.mu: the writer holds it, or a set of readers
    cell,       \* *Scheduler.jobStatus
    wr,         \* the goroutine of the runs: its position in the mutations
    rd,         \* the callers of GetJobStatus: position, copy, record held
    committed,  \* the values of the JobStatus while no mutation was in progress
    \* ---- one cleanText call, character by character
    cleanIn,    \* the string passed
    cleanOut    \* the string returned

schedVars  == <<now, started, running, jobStatus, pc, newsType, outcome, count, retErr, resp, calls>>
scrapeVars == <<srcOut, spc, mu, slot, allNews, errChan, scrapeRet>>
curateVars == <<cfgMax, aiResp, curated, rawText, parsed>>
feedVars   == <<feedIn, feedOut>>
reqVars    == <<reqIn, reqOut>>
zoneVars   == <<zoneIn, zoneOut>>
readVars   == <<statusMu, cell, wr, rd, committed>>
cleanVars  == <<cleanIn, cleanOut>>
unitVars   == <<feedVars, reqVars, zoneVars, readVars, cleanVars>>
vars       == <<schedVars, scrapeVars, curateVars, unitVars>>

(***************************************************************************)
(* Bounds                                                                  *)
(***************************************************************************)
MaxClock     == 32   \* the clock stops at this hour (day 1, 08:00)
NumSources   == 3    \* sources of a category in SpecScrape
MaxPerSource == 4    \* items one source returns
MaxResp      == 6    \* items in a decoded ranking response
MaxText      == 5    \* tokens in a ranking response text
MaxConfigured == 6   \* largest MAX_NEWS_ITEMS configured
MaxOdd       == 1    \* arbitrary entries of a feed, next to the good ones
MaxRun       == 13   \* good entries of a feed
MaxLong      == 2    \* items with a long summary handed to the client
MaxBrief     == 21   \* items with a short summary handed to the client
MaxZoneClock == 72   \* latest time.Now() of an updateNextRunTime call, in hours
MaxRuns      == 2    \* runs whose status mutations race with GetJobStatus
MaxChars     == 6    \* characters of a string passed to cleanText

(***************************************************************************)
(* Time.  The clock counts hours; the model samples it at the hours of     *)
(* the day in ClockHours: one before 08:00, and 08:00 itself (the code     *)
(* reads the clock only through Hour() >= 8 and the date).                 *)
(***************************************************************************)
HoursPerDay == 24
CronHour    == 8
ClockHours  == {7, 8}

Hour(t)     == t % HoursPerDay
Day(t)      == t \div HoursPerDay
Date(d, h)  == d * HoursPerDay + h

NextInstant(t) ==
    CHOOSE u \in (t + 1)..(t + HoursPerDay) :
        /\ Hour(u) \in ClockHours
        /\ \A v \in (t + 1)..(u - 1) : Hour(v) \notin ClockHours

\* next.Format("2006-01-02 15:04:05 MST"): the text carries date and hour
Format(t) == [kind |-> "instant", day |-> Day(t), hour |-> Hour(t)]
\* the instant a formatted NextRun denotes
Instant(f) == Date(f.day, f.hour)

(***************************************************************************)
(* Ranking client and processor (internal/ai)                              *)
(***************************************************************************)
maxNewsItems == 5

\* items of a decoded ranking response: the spec's scenario item (empty
\* summary), one with an empty source, one without title, one without url
ItemA       == [title |-> "A", url |-> "u1", summary |-> "",   source |-> "X", relevance |-> "r"]
ItemB       == [title |-> "B", url |-> "u2", summary |-> "sb", source |-> "",  relevance |-> "r"]
ItemNoTitle == [title |-> "",  url |-> "u3", summary |-> "sc", source |-> "Y", relevance |-> "r"]
ItemNoURL   == [title |-> "D", url |-> "",   summary |-> "sd", source |-> "Z", relevance |-> "r"]
RespItems   == {ItemA, ItemB, ItemNoTitle, ItemNoURL}

SeqsUpTo(S, n) == UNION {[1..k -> S] : k \in 0..n}

\* what the ranking service call yields once its text is decoded
SvcFailures == {"failed to generate content",
                "failed to parse Gemini response as JSON"}
SvcOutcomes(items) ==
    {[err |-> e, news |-> <<>>] : e \in SvcFailures}
        \cup {[err |-> "", news |-> r] : r \in SeqsUpTo(items, MaxResp)}

\* mutant: the cut keeps the last items of the response
Truncate_KeepsLast(news, n) ==
    IF Len(news) > n THEN SubSeq(news, Len(news) - n + 1, Len(news)) ELSE news

\* mutant: the cut keeps one item too many
Truncate_OffByOne(news, n) == IF Len(news) > n THEN SubSeq(news, 1, n + 1) ELSE news

\* lines 253-255: newsResponse.News[:c.maxNewsItems]
Truncate(news, n) == IF Len(news) > n THEN SubSeq(news, 1, n) ELSE news

\* Client.ProcessNewsByType from the service call on: (response, error).
\* The client is the one NewProcessor builds with New(cfg.GeminiAPIKey),
\* whose maxNewsItems is the 5 of New, whatever Config.MaxNewsItems is
ProcessNewsByType(svc) ==
    IF svc.err # "" THEN [err |-> svc.err, news |-> <<>>]
    ELSE IF Len(svc.news) = 0
         THEN [err |-> "Gemini returned no news items", news |-> <<>>]
         ELSE [err |-> "", news |-> Truncate(svc.news, maxNewsItems)]

\* the validation loop of Processor.ProcessNewsItemsByType
RECURSIVE Validate(_)
Validate(news) ==
    IF news = <<>> THEN <<>>
    ELSE LET item == Head(news)
             rest == Validate(Tail(news))
         IN  IF item.title = "" \/ item.url = "" THEN rest
             ELSE <<[item EXCEPT
                       !.summary = IF item.summary = "" THEN item.title ELSE item.summary,
                       !.source  = IF item.source = "" THEN "Unknown" ELSE item.source]>>
                  \o rest

\* mutant: the processor hands the client's items on as they are
ProcessNewsItemsByType_Unvalidated(svc) ==
    LET r == ProcessNewsByType(svc)
    IN  IF r.err # ""
        THEN [err |-> "failed to process news with AI: " \o r.err, news |-> <<>>]
        ELSE [err |-> "", news |-> r.news]

\* Processor.ProcessNewsItemsByType on a non-empty input
ProcessNewsItemsByType(svc) ==
    LET r == ProcessNewsByType(svc)
    IN  IF r.err # ""
        THEN [err |-> "failed to process news with AI: " \o r.err, news |-> <<>>]
        ELSE [err |-> "", news |-> Validate(r.news)]

(***************************************************************************)
(* Response handling of Client.ProcessNewsByType, lines 190-245.  A text   *)
(* is a sequence of tokens: "FJ" is ```json, "F" is ```, "W" is white      *)
(* space, "P" is a stretch of prose without braces, "K" is the text of     *)
(* JSON members, "{" and "}" are the braces.                               *)
(***************************************************************************)
TextTokens == {"FJ", "F", "W", "P", "K", "{", "}"}

\* the positions of token tok in t
Positions(t, tok) == {i \in DOMAIN t : t[i] = tok}
Smallest(S) == CHOOSE i \in S : \A k \in S : i <= k
Largest(S)  == CHOOSE i \in S : \A k \in S : k <= i

\* strings.TrimSpace
TrimSpace(t) ==
    LET solid == {i \in DOMAIN t : t[i] # "W"}
    IN  IF solid = {} THEN <<>> ELSE SubSeq(t, Smallest(solid), Largest(solid))

\* strings.TrimSuffix(t, "```")
TrimSuffix(t) ==
    IF Len(t) > 0 /\ t[Len(t)] = "F" THEN SubSeq(t, 1, Len(t) - 1) ELSE t

\* lines 216-222: strings.CutPrefix with "```json", else with "```"
StripFence(t) ==
    IF Len(t) > 0 /\ t[1] \in {"FJ", "F"}
    THEN TrimSpace(TrimSuffix(Tail(t)))
    ELSE t

\* the text without its insignificant white space
Solid(t) == SelectSeq(t, LAMBDA x : x # "W")

\* number of braces open after the first i tokens of u
RECURSIVE Depth(_, _)
Depth(u, i) ==
    IF i = 0 THEN 0
    ELSE Depth(u, i - 1) + (IF u[i] = "{" THEN 1 ELSE IF u[i] = "}" THEN -1 ELSE 0)

\* json.Unmarshal into the NewsResponse succeeds: the text is one JSON
\* object, white space around and inside it allowed
IsObject(t) ==
    LET u == Solid(t)
    IN  /\ Len(u) >= 2
        /\ \A i \in DOMAIN u : u[i] \in {"{", "}", "K"}
        /\ \A i \in 1..(Len(u) - 1) : Depth(u, i) > 0
        /\ Depth(u, Len(u)) = 0

\* the NewsResponse json.Unmarshal decodes from an object text
Decode(t) == Solid(t)

\* strings.Index(t, "{"): -1 if there is none
Index(t, tok) ==
    IF Positions(t, tok) = {} THEN -1 ELSE Smallest(Positions(t, tok))

\* mutant: the salvage cuts at the first closing brace
LastIndex_First(t, tok) ==
    IF Positions(t, tok) = {} THEN -1 ELSE Smallest(Positions(t, tok))

\* strings.LastIndex(t, "}"): -1 if there is none
LastIndex(t, tok) ==
    IF Positions(t, tok) = {} THEN -1 ELSE Largest(Positions(t, tok))

ParseOk(t)         == [done |-> TRUE, err |-> "", value |-> Decode(t), text |-> <<>>]
ParseErr(msg, t)   == [done |-> TRUE, err |-> msg, value |-> <<>>, text |-> t]
NotParsed          == [done |-> FALSE, err |-> "", value |-> <<>>, text |-> <<>>]
MalformedErrors    == {"failed to parse Gemini response as JSON",
                       "failed to parse Gemini response as JSON (retry also failed)"}

\* lines 227-245: json.Unmarshal, then the salvage of the text from the
\* first "{" to the last "}"
ParseResponse(t) ==
    IF IsObject(t) THEN ParseOk(t)
    ELSE LET jsonStart == Index(t, "{")
             jsonEnd   == LastIndex(t, "}")
         IN  IF jsonStart >= 1
             THEN IF jsonEnd > jsonStart
                  THEN LET cleanJSON == SubSeq(t, jsonStart, jsonEnd)
                       IN  IF IsObject(cleanJSON) THEN ParseOk(cleanJSON)
                           ELSE ParseErr("failed to parse Gemini response as JSON (retry also failed)", t)
                  ELSE ParseErr("failed to parse Gemini response as JSON", t)
             ELSE ParseErr("failed to parse Gemini response as JSON", t)

\* lines 199-245: from the text of the candidate to the decoded response
HandleResponse(raw) ==
    LET responseText == TrimSpace(raw)
    IN  IF responseText = <<>>
        THEN ParseErr("empty response from Gemini AI", <<>>)
        ELSE ParseResponse(StripFence(responseText))

(***************************************************************************)
(* Aggregator (internal/scraper): ScrapeNewsByType                         *)
(***************************************************************************)
Sources == 1..NumSources

\* ScrapeNewsFromSource(src, newsType): an error, or n items of that source
Fetched(n)      == [ok |-> TRUE, n |-> n]
FetchFailed     == [ok |-> FALSE, n |-> 0]
SourceOutcomes(maxN) == {FetchFailed} \cup {Fetched(n) : n \in 0..maxN}

NewsOf(src, out) == [i \in 1..out.n |-> [source |-> src, id |-> i]]
ErrOf(src)       == [failed |-> src]

NoHolder == 0

\* mutant: the append is not guarded by the mutex
MuLock_Unguarded(src) == TRUE

\* mu.Lock() returns to goroutine src
MuLock(src) == mu = NoHolder

\* mutant: the channel holds one error less than there are sources
ErrChanCap_OneLess == NumSources - 1

\* the capacity of errChan: make(chan error, len(sources))
ErrChanCap == NumSources

\* mutant: any failed source fails the call
ScrapeReturnValue_FailOnAnyError(news, errors) ==
    IF Len(news) = 0 \/ Len(errors) > 0
    THEN [done |-> TRUE, err |-> "no news articles scraped from any source",
          items |-> <<>>, errors |-> errors]
    ELSE [done |-> TRUE, err |-> "", items |-> news, errors |-> errors]

\* lines 84-94: the value returned once the goroutines are joined
ScrapeReturnValue(news, errors) ==
    IF Len(news) = 0
    THEN [done |-> TRUE, err |-> "no news articles scraped from any source",
          items |-> <<>>, errors |-> errors]
    ELSE [done |-> TRUE, err |-> "", items |-> news, errors |-> errors]

NotReturned == [done |-> FALSE, err |-> "", items |-> <<>>, errors |-> <<>>]

\* the goroutine of one source: ScrapeNewsFromSource returns
FetchReturn(src) ==
    /\ spc[src] = "fetch"
    /\ IF srcOut[src].ok
       THEN /\ spc' = [spc EXCEPT ![src] = "lock"]
            /\ UNCHANGED errChan
       ELSE /\ Len(errChan) < ErrChanCap
            /\ errChan' = Append(errChan, ErrOf(src))
            /\ spc' = [spc EXCEPT ![src] = "done"]
    /\ UNCHANGED <<srcOut, mu, slot, allNews, scrapeRet, schedVars, curateVars, unitVars>>

Lock(src) ==
    /\ spc[src] = "lock"
    /\ MuLock(src)
    /\ mu' = src
    /\ spc' = [spc EXCEPT ![src] = "read"]
    /\ UNCHANGED <<srcOut, slot, allNews, errChan, scrapeRet, schedVars, curateVars, unitVars>>

\* append(allNews, news...) reads the slice, then stores the grown slice
AppendRead(src) ==
    /\ spc[src] = "read"
    /\ slot' = [slot EXCEPT ![src] = allNews]
    /\ spc' = [spc EXCEPT ![src] = "write"]
    /\ UNCHANGED <<srcOut, mu, allNews, errChan, scrapeRet, schedVars, curateVars, unitVars>>

AppendWrite(src) ==
    /\ spc[src] = "write"
    /\ allNews' = slot[src] \o NewsOf(src, srcOut[src])
    /\ spc' = [spc EXCEPT ![src] = "unlock"]
    /\ UNCHANGED <<srcOut, mu, slot, errChan, scrapeRet, schedVars, curateVars, unitVars>>

Unlock(src) ==
    /\ spc[src] = "unlock"
    /\ mu' = NoHolder
    /\ spc' = [spc EXCEPT ![src] = "done"]
    /\ UNCHANGED <<srcOut, slot, allNews, errChan, scrapeRet, schedVars, curateVars, unitVars>>

\* wg.Wait() returns, errChan is closed and drained, the function returns
Join ==
    /\ ~scrapeRet.done
    /\ \A src \in Sources : spc[src] = "done"
    /\ scrapeRet' = ScrapeReturnValue(allNews, errChan)
    /\ errChan' = <<>>
    /\ UNCHANGED <<srcOut, spc, mu, slot, allNews, schedVars, curateVars, unitVars>>

ScrapeIdle ==
    /\ srcOut = [src \in Sources |-> FetchFailed]
    /\ spc = [src \in Sources |-> "done"]
    /\ mu = NoHolder
    /\ slot = [src \in Sources |-> <<>>]
    /\ allNews = <<>>
    /\ errChan = <<>>
    /\ scrapeRet = NotReturned

InitScrape ==
    /\ srcOut \in [Sources -> SourceOutcomes(MaxPerSource)]
    /\ spc = [src \in Sources |-> "fetch"]
    /\ mu = NoHolder
    /\ slot = [src \in Sources |-> <<>>]
    /\ allNews = <<>>
    /\ errChan = <<>>
    /\ scrapeRet = NotReturned

\* the whole call, as the Scheduler sees it: the merge in source order
RECURSIVE MergeAll(_, _)
MergeAll(outs, k) ==
    IF k = 0 THEN <<>>
    ELSE MergeAll(outs, k - 1) \o (IF outs[k].ok THEN NewsOf(k, outs[k]) ELSE <<>>)

RECURSIVE ErrorsOf(_, _)
ErrorsOf(outs, k) ==
    IF k = 0 THEN <<>>
    ELSE ErrorsOf(outs, k - 1) \o (IF outs[k].ok THEN <<>> ELSE <<ErrOf(k)>>)

ScrapeNewsByType(outs) ==
    ScrapeReturnValue(MergeAll(outs, NumSources), ErrorsOf(outs, NumSources))

(***************************************************************************)
(* Scheduler (internal/scheduler) and the trigger handler (internal/api)   *)
(***************************************************************************)
\* the Scheduler the entry point starts, and the one NewHandlers builds
MainSched    == "main"
HandlerSched == "api"
Scheds       == {MainSched, HandlerSched}

Reqs     == {"r1", "r2"}     \* POST /trigger requests
Directs  == {"d1"}           \* direct callers of RunManualJobByType
CronSlots == <<"c1", "c2">>  \* invocations of runNewsJob by the cron
CronJobs == {CronSlots[i] : i \in 1..Len(CronSlots)}
Jobs     == Reqs \cup Directs \cup CronJobs
Previews == {"p1"}           \* GET /latest requests
Callers  == Jobs \cup Previews

\* the Scheduler a job goroutine calls into
SchedOf(j) == IF j \in Reqs THEN HandlerSched ELSE MainSched

TypeInputs == {"ai", "global", "sports"}

\* scheduler.New: the initial JobStatus (LastRun is the zero time)
NewJobStatus ==
    [LastRun |-> 0, Status |-> "initialized", NewsCount |-> 0,
     NextRun |-> [kind |-> "08:00 WIB daily", day |-> 0, hour |-> CronHour],
     Error |-> ""]

\* mutant: the status write leaves NewsCount as it was
updateJobStatus_KeepsCount(js, t, status, newsCount, errorMsg) ==
    [js EXCEPT !.LastRun = t, !.Status = status, !.Error = errorMsg]

\* mutant: the status write leaves Status as it was
updateJobStatus_KeepsStatus(js, t, status, newsCount, errorMsg) ==
    [js EXCEPT !.LastRun = t, !.NewsCount = newsCount, !.Error = errorMsg]

\* Scheduler.updateJobStatus at time t
updateJobStatus(js, t, status, newsCount, errorMsg) ==
    [js EXCEPT !.LastRun = t, !.Status = status,
               !.NewsCount = newsCount, !.Error = errorMsg]

\* Scheduler.updateNextRunTime at time t
updateNextRunTime(js, t) ==
    LET next == Date(Day(t), CronHour)
    IN  [js EXCEPT !.NextRun =
            Format(IF Hour(t) >= CronHour THEN next + HoursPerDay ELSE next)]

\* Handlers.GetStatus: the JobStatus of the handlers' own Scheduler
GetStatus == jobStatus[HandlerSched]

\* Scheduler.IsRunning
IsRunning(s) == running[s]

\* mutant: the guard never sees a run in progress
AlreadyRunning_Never(s) == FALSE

\* the single-flight test of RunManualJobByType and runNewsJob
AlreadyRunning(s) == running[s]

\* fmt.Errorf("<what>: %w", cause): the error a stage failure returns
Wrap(what, cause) == [what |-> what, cause |-> cause]
NoError           == Wrap("", "")

\* no call made yet to the ranking service (rank), to SendNewsByType
\* (digest) or to SendSimpleMessage (notice); logged: the notice failed;
\* scraped: len(newsItems) handed to the ranking call; channel: the
\* Discord client the digest went to
NoCalls == [rank |-> 0, digest |-> 0, notice |-> 0, logged |-> FALSE,
            scraped |-> 0, channel |-> ""]

\* fmt.Sprintf with one %s: the texts of lines 316 and 331 carry the
\* newsType argument as it was passed (the errors returned carry it too;
\* Wrap keeps their format only)
Sprintf(before, t, after) == before \o t \o after

\* client.go, lines 107-167: the prompt the ranking request is made with
Prompt(t) ==
    IF t = "global" THEN "global business, technology, and cryptocurrency"
    ELSE "AI technology"

\* mutant: only 'ai' goes to the default client
Webhook_AiOnly(t) == IF t = "ai" THEN "discord" ELSE "discordGlobal"

\* mutant: every digest goes to the default client
Webhook_AlwaysDefault(t) == "discord"

\* executeNewsJobByType, lines 340-346: the client the digest is sent with
Webhook(t) == IF t = "global" THEN "discordGlobal" ELSE "discord"

\* mutant: every failed run goes on to the failure notice
AfterExecute_NoticeAlways(j, failed) ==
    IF failed THEN "notice" ELSE "release"

\* mutant: a failed stage sends the job back to the ranking call
AfterExecute_Retry(j, failed) ==
    IF failed THEN "ai" ELSE "release"

\* where a job goes when executeNewsJobByType has returned
AfterExecute(j, failed) ==
    IF j \in CronJobs /\ failed THEN "notice" ELSE "release"

InPipeline == {"begin", "scrape", "ai", "discord"}
InRun      == InPipeline \cup {"notice", "release"}

\* Scheduler.Start (called by the entry point on its own Scheduler)
Start ==
    /\ ~started[MainSched]
    /\ started' = [started EXCEPT ![MainSched] = TRUE]
    /\ jobStatus' = [jobStatus EXCEPT
                        ![MainSched] = updateNextRunTime(jobStatus[MainSched], now)]
    /\ UNCHANGED <<now, running, pc, newsType, outcome, count, retErr, resp, calls, scrapeVars, curateVars, unitVars>>

\* time passes; at 08:00 the cron of a started Scheduler invokes runNewsJob
Tick ==
    LET t    == NextInstant(now)
        free == {i \in 1..Len(CronSlots) : pc[CronSlots[i]] = "idle"}
        fire == started[MainSched] /\ Hour(t) = CronHour
    IN  /\ t <= MaxClock
        /\ now' = t
        /\ IF fire
           THEN /\ free # {}
                /\ LET c == CronSlots[CHOOSE x \in free : \A y \in free : x <= y]
                   IN  /\ pc' = [pc EXCEPT ![c] = "guard"]
           ELSE UNCHANGED pc
        /\ UNCHANGED <<started, running, jobStatus, newsType, outcome, count, retErr, resp, calls, scrapeVars, curateVars, unitVars>>

\* Handlers.TriggerNews for request r with query parameter type = t
TriggerNews(r, t) ==
    LET nt == IF t # "ai" /\ t # "global" THEN "ai" ELSE t
    IN  /\ pc[r] = "idle"
        /\ UNCHANGED outcome
        /\ IF IsRunning(HandlerSched)
           THEN /\ resp' = [resp EXCEPT ![r] = 429]
                /\ pc' = [pc EXCEPT ![r] = "done"]
                /\ UNCHANGED newsType
           ELSE /\ resp' = [resp EXCEPT ![r] = 200]
                /\ pc' = [pc EXCEPT ![r] = "guard"]
                /\ newsType' = [newsType EXCEPT ![r] = nt]
        /\ UNCHANGED <<now, started, running, jobStatus, count, retErr, calls, scrapeVars, curateVars, unitVars>>

\* a direct call of RunManualJobByType(t) (RunManualJob passes "ai")
CallManual(d, t) ==
    /\ pc[d] = "idle"
    /\ pc' = [pc EXCEPT ![d] = "guard"]
    /\ newsType' = [newsType EXCEPT ![d] = t]
    /\ UNCHANGED outcome
    /\ UNCHANGED <<now, started, running, jobStatus, count, retErr, resp, calls, scrapeVars, curateVars, unitVars>>

\* mutant: the deferred cleanup of the run is registered before the test,
\* so that a refused trigger clears the flag of the run in progress
Reject_Deferred(j) ==
    /\ outcome' = [outcome EXCEPT ![j] = "rejected"]
    /\ pc' = [pc EXCEPT ![j] = "done"]
    /\ running' = [running EXCEPT ![SchedOf(j)] = FALSE]

\* lines 242-245 and 261-265: the trigger is refused and the call returns
Reject(j) ==
    /\ outcome' = [outcome EXCEPT ![j] = "rejected"]
    /\ pc' = [pc EXCEPT ![j] = "done"]
    /\ UNCHANGED running

\* RunManualJobByType, lines 241-247: the guarded test-and-set
ManualEnter(j) ==
    LET s == SchedOf(j)
    IN  /\ pc[j] = "guard"
        /\ IF AlreadyRunning(s)
           THEN Reject(j)
           ELSE /\ running' = [running EXCEPT ![s] = TRUE]
                /\ outcome' = [outcome EXCEPT ![j] = "accepted"]
                /\ pc' = [pc EXCEPT ![j] = "begin"]
        /\ UNCHANGED <<now, started, jobStatus, newsType, count, retErr, resp, calls, scrapeVars, curateVars, unitVars>>

\* runNewsJob, lines 260-267
CronEnter(j) ==
    LET s == SchedOf(j)
    IN  /\ pc[j] = "guard"
        /\ IF AlreadyRunning(s)
           THEN Reject(j)
           ELSE /\ running' = [running EXCEPT ![s] = TRUE]
                /\ outcome' = [outcome EXCEPT ![j] = "accepted"]
                /\ pc' = [pc EXCEPT ![j] = "begin"]
        /\ UNCHANGED <<now, started, jobStatus, newsType, count, retErr, resp, calls, scrapeVars, curateVars, unitVars>>

\* executeNewsJobByType, lines 302-305
ExecBegin(j) ==
    LET s == SchedOf(j)
    IN  /\ pc[j] = "begin"
        /\ jobStatus' = [jobStatus EXCEPT
                            ![s] = [@ EXCEPT !.Status = "running", !.Error = ""]]
        /\ pc' = [pc EXCEPT ![j] = "scrape"]
        /\ UNCHANGED <<now, started, running, newsType, outcome, count, retErr, resp, calls, scrapeVars, curateVars, unitVars>>

\* what ScrapeNewsByType can return to the pipeline: every outcome of
\* every source, each source with at most one item
ScrapeResults ==
    {ScrapeNewsByType(outs) : outs \in [Sources -> SourceOutcomes(1)]}

\* what ProcessNewsItemsByType can return to the pipeline: every outcome
\* of the ranking call, over a valid item and one without a title
CurationResults ==
    {ProcessNewsItemsByType(svc) : svc \in SvcOutcomes({ItemA, ItemNoTitle})}

\* mutant: the error is returned without a status write
Fail_StatusKept(j, status, n, msg, e) ==
    /\ UNCHANGED jobStatus
    /\ retErr' = [retErr EXCEPT ![j] = e]
    /\ pc' = [pc EXCEPT ![j] = AfterExecute(j, TRUE)]
    /\ calls' = IF AfterExecute(j, TRUE) = "notice"
                THEN [calls EXCEPT ![j].notice = @ + 1, ![j].scraped = 0]
                ELSE [calls EXCEPT ![j].scraped = 0]

\* executeNewsJobByType writes the status and returns an error to the job
Fail(j, status, n, msg, e) ==
    /\ jobStatus' = [jobStatus EXCEPT
          ![SchedOf(j)] = updateJobStatus(@, now, status, n, msg)]
    /\ retErr' = [retErr EXCEPT ![j] = e]
    /\ pc' = [pc EXCEPT ![j] = AfterExecute(j, TRUE)]
    /\ calls' = IF AfterExecute(j, TRUE) = "notice"
                THEN [calls EXCEPT ![j].notice = @ + 1, ![j].scraped = 0]
                ELSE [calls EXCEPT ![j].scraped = 0]

\* executeNewsJobByType, lines 309-318: ScrapeNewsByType returns
ScrapeReturn(j) ==
    /\ pc[j] = "scrape"
    /\ \E r \in ScrapeResults :
              IF r.err # ""
              THEN Fail(j, "failed", 0, r.err, Wrap("failed to scrape news", r.err))
              ELSE IF Len(r.items) = 0
              THEN Fail(j, "completed", 0, Sprintf("No ", newsType[j], " news items found"),
                        Wrap("no news items scraped", ""))
              ELSE /\ pc' = [pc EXCEPT ![j] = "ai"]
                   /\ calls' = [calls EXCEPT ![j].rank = @ + 1,
                                             ![j].scraped = Len(r.items)]
                   /\ UNCHANGED <<jobStatus, retErr>>
    /\ UNCHANGED <<now, started, running, newsType, outcome, count, resp, scrapeVars, curateVars, unitVars>>

\* executeNewsJobByType, lines 324-333: ProcessNewsItemsByType returns
CurateReturn(j) ==
    /\ pc[j] = "ai"
    /\ \E r \in CurationResults :
              IF r.err # ""
              THEN /\ Fail(j, "failed", 0, r.err,
                           Wrap("failed to process news with AI", r.err))
                   /\ UNCHANGED count
              ELSE IF Len(r.news) = 0
              THEN /\ Fail(j, "completed", 0,
                           Sprintf("No relevant ", newsType[j], " news found"),
                           Wrap("AI processing returned no news items", ""))
                   /\ UNCHANGED count
              ELSE /\ count' = [count EXCEPT ![j] = Len(r.news)]
                   /\ pc' = [pc EXCEPT ![j] = "discord"]
                   /\ calls' = [calls EXCEPT ![j].digest = @ + 1,
                                             ![j].scraped = 0,
                                             ![j].channel = Webhook(newsType[j])]
                   /\ UNCHANGED <<jobStatus, retErr>>
    /\ UNCHANGED <<now, started, running, newsType, outcome, resp, scrapeVars, curateVars, unitVars>>

DiscordFailure == "discord webhook returned an error"

\* executeNewsJobByType, lines 339-360: SendNewsByType returns
DeliverReturn(j) ==
    /\ pc[j] = "discord"
    /\ \/ Fail(j, "failed", count[j], DiscordFailure,
               Wrap("failed to send news to Discord", DiscordFailure))
       \/ /\ jobStatus' = [jobStatus EXCEPT
                ![SchedOf(j)] = updateJobStatus(@, now, "success", count[j], "")]
          /\ retErr' = [retErr EXCEPT ![j] = NoError]
          /\ pc' = [pc EXCEPT ![j] = AfterExecute(j, FALSE)]
          /\ UNCHANGED calls
    /\ UNCHANGED count
    /\ UNCHANGED <<now, started, running, newsType, outcome, resp, scrapeVars, curateVars, unitVars>>

\* runNewsJob, lines 278-287: SendSimpleMessage returns; its error, if any,
\* is logged
NoticeReturn(j) ==
    /\ pc[j] = "notice"
    /\ \E discordErr \in BOOLEAN :
          calls' = [calls EXCEPT ![j].logged = discordErr]
    /\ pc' = [pc EXCEPT ![j] = "release"]
    /\ UNCHANGED <<now, started, running, jobStatus, newsType, outcome, count, retErr, resp, scrapeVars, curateVars, unitVars>>

\* mutant: the call returns without clearing the flag
Release_KeepsFlag(j) ==
    /\ pc[j] = "release"
    /\ pc' = [pc EXCEPT ![j] = IF j \in CronJobs THEN "nextrun" ELSE "done"]
    /\ count' = [count EXCEPT ![j] = 0]
    /\ retErr' = [retErr EXCEPT ![j] = NoError]
    /\ calls' = [calls EXCEPT ![j] = NoCalls]
    /\ UNCHANGED <<now, started, running, jobStatus, newsType, outcome, resp, scrapeVars, curateVars, unitVars>>

\* the deferred function, lines 249-253 and 269-272; the locals of the
\* returned call are gone
Release(j) ==
    /\ pc[j] = "release"
    /\ running' = [running EXCEPT ![SchedOf(j)] = FALSE]
    /\ pc' = [pc EXCEPT ![j] = IF j \in CronJobs THEN "nextrun" ELSE "done"]
    /\ count' = [count EXCEPT ![j] = 0]
    /\ retErr' = [retErr EXCEPT ![j] = NoError]
    /\ calls' = [calls EXCEPT ![j] = NoCalls]
    /\ UNCHANGED <<now, started, jobStatus, newsType, outcome, resp, scrapeVars, curateVars, unitVars>>

\* runNewsJob, line 273
CronUpdateNextRun(j) ==
    /\ pc[j] = "nextrun"
    /\ jobStatus' = [jobStatus EXCEPT
                        ![SchedOf(j)] = updateNextRunTime(@, now)]
    /\ pc' = [pc EXCEPT ![j] = "done"]
    /\ UNCHANGED <<now, started, running, newsType, outcome, count, retErr, resp, calls, scrapeVars, curateVars, unitVars>>

\* mutant: GET /latest is refused while a run is in progress
PreviewBlockedBy_Run(s) == running[s]

\* Handlers.GetLatestNews works on a scraper and a processor of its own: it
\* does not consult h.scheduler (TriggerNews does, at line 73)
PreviewBlockedBy(s) == FALSE

\* Handlers.GetLatestNews, lines 107-123: the request is taken up
PreviewBegin(p) ==
    /\ pc[p] = "idle"
    /\ IF PreviewBlockedBy(HandlerSched)
       THEN /\ resp' = [resp EXCEPT ![p] = 429]
            /\ pc' = [pc EXCEPT ![p] = "done"]
       ELSE /\ pc' = [pc EXCEPT ![p] = "pscrape"]
            /\ UNCHANGED resp
    /\ UNCHANGED <<now, started, running, jobStatus, newsType, outcome, count, retErr, calls, scrapeVars, curateVars, unitVars>>

\* Handlers.GetLatestNews, lines 125-145: ScrapeNewsByType returns
PreviewScrapeReturn(p) ==
    /\ pc[p] = "pscrape"
    /\ \E r \in ScrapeResults :
              IF r.err # ""
              THEN /\ resp' = [resp EXCEPT ![p] = 500]
                   /\ pc' = [pc EXCEPT ![p] = "done"]
                   /\ UNCHANGED calls
              ELSE IF Len(r.items) = 0
              THEN /\ resp' = [resp EXCEPT ![p] = 200]
                   /\ pc' = [pc EXCEPT ![p] = "done"]
                   /\ UNCHANGED calls
              ELSE /\ pc' = [pc EXCEPT ![p] = "pai"]
                   /\ calls' = [calls EXCEPT ![p].rank = @ + 1]
                   /\ UNCHANGED resp
    /\ UNCHANGED <<now, started, running, jobStatus, newsType, outcome, count, retErr, scrapeVars, curateVars, unitVars>>

\* Handlers.GetLatestNews, lines 147-185: ProcessNewsItemsByType returns and
\* the response is written (count is its selected_count)
PreviewCurateReturn(p) ==
    /\ pc[p] = "pai"
    /\ \E r \in CurationResults :
              IF r.err # ""
              THEN /\ resp' = [resp EXCEPT ![p] = 500]
                   /\ UNCHANGED count
              ELSE /\ resp' = [resp EXCEPT ![p] = 200]
                   /\ count' = [count EXCEPT ![p] = Len(r.news)]
    /\ pc' = [pc EXCEPT ![p] = "done"]
    /\ UNCHANGED <<now, started, running, jobStatus, newsType, outcome, retErr, calls, scrapeVars, curateVars, unitVars>>

\* the Schedulers after scheduler.New, with the goroutines in `active` able
\* to start and the others absent
SchedInit(active) ==
    /\ started = [s \in Scheds |-> FALSE]
    /\ running = [s \in Scheds |-> FALSE]
    /\ jobStatus = [s \in Scheds |-> NewJobStatus]
    /\ pc = [j \in Callers |-> IF j \in active THEN "idle" ELSE "off"]
    /\ newsType = [j \in Jobs |-> "ai"]
    /\ outcome = [j \in Jobs |-> "none"]
    /\ count = [j \in Callers |-> 0]
    /\ retErr = [j \in Jobs |-> NoError]
    /\ resp = [r \in Reqs \cup Previews |-> 0]
    /\ calls = [j \in Callers |-> NoCalls]

NotCurated == [done |-> FALSE, client |-> [err |-> "", news |-> <<>>],
                              result |-> [err |-> "", news |-> <<>>]]

\* no response text is being handled
ParseIdle ==
    /\ rawText = <<>>
    /\ parsed = NotParsed

CurateIdle ==
    /\ cfgMax = maxNewsItems
    /\ aiResp = [err |-> "", news |-> <<>>]
    /\ curated = NotCurated
    /\ ParseIdle

\* Processor.ProcessNewsItemsByType returns: what the client handed to the
\* processor, and what the processor hands to its caller
Curate ==
    /\ ~curated.done
    /\ curated' = [done |-> TRUE, client |-> ProcessNewsByType(aiResp),
                                  result |-> ProcessNewsItemsByType(aiResp)]
    /\ UNCHANGED <<cfgMax, aiResp, rawText, parsed, schedVars, scrapeVars, unitVars>>

\* Client.ProcessNewsByType, lines 190-245: the text is handled
Parse ==
    /\ ~parsed.done
    /\ parsed' = HandleResponse(rawText)
    /\ UNCHANGED <<cfgMax, aiResp, curated, rawText, schedVars, scrapeVars, unitVars>>

(***************************************************************************)
(* The feed fetcher: scraper.go, scrapeRSSFeed and its helpers.            *)
(* A text is a sequence of tokens.  "AI" and "stock" are words that hold a *)
(* keyword of the 'ai' and of the 'global' list, "x" is a word that holds  *)
(* none, " " and "\n" are white space, "<p>" and "<br>" are tags, "#" is a *)
(* run of bytes without keyword, tag or white space, whose length is the   *)
(* fill of the text, and "..." is the truncation marker.                   *)
(***************************************************************************)
FetchTime    == 30   \* time.Now() of the fetch, in hours
RecencyHours == 24   \* cutoff := time.Now().Add(-24 * time.Hour)
NoStamp      == -1   \* PublishedParsed or UpdatedParsed is nil

maxSummaryLen           == 300
keptSummaryLen          == 297
maxItemsPerSource       == 12
maxItemsPerSourceGlobal == 8

Cutoff == FetchTime - RecencyHours

\* len() of one token, in bytes
TokenLen(tok, fill) ==
    CASE tok = "AI"    -> 2
      [] tok = "stock" -> 5
      [] tok = "<p>"   -> 3
      [] tok = "<br>"  -> 4
      [] tok = "..."   -> 3
      [] tok = "#"     -> fill
      [] OTHER         -> 1

\* len() of a text
RECURSIVE Bytes(_, _)
Bytes(t, fill) ==
    IF t = <<>> THEN 0 ELSE TokenLen(Head(t), fill) + Bytes(Tail(t), fill)

\* strings.ToLower
ToLower(tok) == IF tok = "AI" THEN "ai" ELSE tok

\* strings.Contains(strings.ToLower(content), keyword), for some keyword
aiKeywords     == {"ai"}
globalKeywords == {"stock"}
ContainsAny(content, keywords) ==
    \E i \in DOMAIN content : ToLower(content[i]) \in keywords

isAIRelated(content) == ContainsAny(content, aiKeywords)
isGlobalBusinessRelated(content) == ContainsAny(content, globalKeywords)

\* strings.ReplaceAll(t, old, new), new being "" or one token
ReplaceAll(t, old, new) ==
    IF new = "" THEN SelectSeq(t, LAMBDA c : c # old)
    ELSE [i \in DOMAIN t |-> IF t[i] = old THEN new ELSE t[i]]

\* strings.TrimSpace on a text of the feed
TrimBlank(t) ==
    LET solid == {i \in DOMAIN t : t[i] \notin {" ", "\n"}}
    IN  IF solid = {} THEN <<>> ELSE SubSeq(t, Smallest(solid), Largest(solid))

\* lines 411-414: "  " is replaced by " " until no "  " is left
RECURSIVE Collapse(_)
Collapse(t) ==
    IF Len(t) < 2 THEN t
    ELSE IF t[1] = " " /\ t[2] = " " THEN Collapse(Tail(t))
    ELSE <<t[1]>> \o Collapse(Tail(t))

cleanText(text) ==
    LET untagged == ReplaceAll(ReplaceAll(text, "<p>", ""), "<br>", " ")
        trimmed  == TrimBlank(untagged)
    IN  Collapse(ReplaceAll(trimmed, "\n", " "))

\* text[:n], for a text longer than n bytes whose n-th byte is the last
\* byte of a token or a byte of the fill (the only run the model splits)
RECURSIVE Take(_, _, _)
Take(t, fill, n) ==
    IF t = <<>> \/ n = 0 THEN [text |-> <<>>, fill |-> 0]
    ELSE IF TokenLen(Head(t), fill) <= n
         THEN LET rest == Take(Tail(t), fill, n - TokenLen(Head(t), fill))
              IN  [text |-> <<Head(t)>> \o rest.text,
                   fill |-> IF Head(t) = "#" THEN fill ELSE rest.fill]
         ELSE [text |-> <<"#">>, fill |-> n]

\* s = s[:kept] + "..." when len(s) > max
Shorten(text, fill, max, kept) ==
    IF Bytes(text, fill) > max
    THEN LET cut == Take(text, fill, kept)
         IN  [text |-> Append(cut.text, "..."), fill |-> cut.fill]
    ELSE [text |-> text, fill |-> fill]

\* lines 269-271
LimitSummary(text, fill) == Shorten(text, fill, maxSummaryLen, keptSummaryLen)

\* lines 231-238
PublishedAt(item) ==
    IF item.pub # NoStamp THEN item.pub
    ELSE IF item.upd # NoStamp THEN item.upd
    ELSE FetchTime

\* lines 246-253
ShouldInclude(item, t) ==
    LET content == item.title \o <<" ">> \o item.desc
    IN  IF t = "ai" THEN isAIRelated(content)
        ELSE IF t = "global" THEN isGlobalBusinessRelated(content)
        ELSE TRUE

\* lines 260-271
NewsItem(item) ==
    LET summary == LimitSummary(cleanText(item.desc), item.fill)
    IN  [at |-> item.at, title |-> cleanText(item.title),
         summary |-> summary.text, fill |-> summary.fill,
         url |-> item.link, publishedAt |-> PublishedAt(item)]

\* mutant: the per-source limit is tested before the item is appended
ItemLimit_OneLess(t) ==
    IF t = "global" THEN maxItemsPerSourceGlobal - 1 ELSE maxItemsPerSource - 1

\* lines 276-279
ItemLimit(t) ==
    IF t = "global" THEN maxItemsPerSourceGlobal ELSE maxItemsPerSource

\* mutant: an item older than the cutoff is kept
IsOld_Never(item) == FALSE

\* line 241: publishedAt.Before(cutoff)
IsOld(item) == PublishedAt(item) < Cutoff

\* lines 229-284: the loop over feed.Items, from entry i on
RECURSIVE ScrapeLoop(_, _, _, _)
ScrapeLoop(items, i, newsItems, t) ==
    IF i > Len(items) THEN newsItems
    ELSE IF IsOld(items[i]) THEN ScrapeLoop(items, i + 1, newsItems, t)
    ELSE IF ~ShouldInclude(items[i], t) THEN ScrapeLoop(items, i + 1, newsItems, t)
    ELSE LET appended == Append(newsItems, NewsItem(items[i]))
         IN  IF Len(appended) >= ItemLimit(t) THEN appended
             ELSE ScrapeLoop(items, i + 1, appended, t)

\* scrapeRSSFeed: (items, error)
scrapeRSSFeed(feed, t) ==
    IF feed.err THEN [err |-> TRUE, items |-> <<>>]
    ELSE [err |-> FALSE, items |-> ScrapeLoop(feed.items, 1, <<>>, t)]

\* ScrapeNewsByType, lines 35-43: the type the sources are fetched for
NormalType(t) == IF t = "global" THEN "global" ELSE "ai"

\* ---- the feeds of the model
Fresh == FetchTime - 1
Old   == Cutoff - 1
StampPairs == {<<Fresh, NoStamp>>, <<Fresh, Old>>, <<Old, Fresh>>,
               <<Cutoff, NoStamp>>, <<NoStamp, Fresh>>, <<NoStamp, Old>>,
               <<NoStamp, NoStamp>>}
Plain    == <<<<"AI">>, <<"stock">>>>
NoTitle  == <<<<"<p>">>, <<"stock", "<br>", "AI">>>>
OffTopic == <<<<"x">>, <<"x">>>>
Spaced   == <<<<" ", "stock", "\n", " ", "x">>, <<>>>>
Fills == {maxSummaryLen - 5, maxSummaryLen - 4}

Entry(stamps, text, link, fill) ==
    [at |-> 0, pub |-> stamps[1], upd |-> stamps[2], title |-> text[1],
     desc |-> IF fill > 0 THEN Append(text[2], "#") ELSE text[2],
     fill |-> fill, link |-> link]

\* an entry that passes every filter
Good == Entry(<<Fresh, NoStamp>>, Plain, "u", 0)

Entries ==
    {Entry(s, t, "u", 0) : s \in StampPairs, t \in {Plain, OffTopic}}
    \cup {Entry(<<Fresh, NoStamp>>, t, "u", 0) : t \in {NoTitle, Spaced}}
    \cup {Entry(<<Fresh, NoStamp>>, t, "", 0) : t \in {Plain, NoTitle}}
    \cup {Entry(<<Fresh, NoStamp>>, t, "u", f) : t \in {Plain, NoTitle}, f \in Fills}

\* odd entries after the first p of a run of k good ones, each entry tagged
\* with its place in the feed
FeedOf(odd, k, p) ==
    LET all == [i \in 1..p |-> Good] \o odd \o [i \in 1..(k - p) |-> Good]
    IN  [i \in DOMAIN all |-> [all[i] EXCEPT !.at = i]]

\* in front of the run, in its middle, behind it
Places(k) == {0, k \div 2, k}

NotFetched == [done |-> FALSE, err |-> FALSE, items |-> <<>>]

FeedIdle ==
    /\ feedIn = [type |-> "ai", err |-> FALSE, items |-> <<>>]
    /\ feedOut = NotFetched

\* ScrapeNewsFromSource returns in a goroutine of ScrapeNewsByType
FeedScrape ==
    /\ ~feedOut.done
    /\ LET r == scrapeRSSFeed(feedIn, NormalType(feedIn.type))
       IN  feedOut' = [done |-> TRUE, err |-> r.err, items |-> r.items]
    /\ UNCHANGED <<feedIn, reqVars, zoneVars, readVars, cleanVars, schedVars, scrapeVars, curateVars>>

(***************************************************************************)
(* The ranking request: client.go, Client.ProcessNewsByType, lines 63-97   *)
(***************************************************************************)
maxArticlesGlobal  == 20
maxArticlesDefault == 15
maxRequestSummary  == 200
keptRequestSummary == 197

\* mutant: the ceiling of 'ai' for every category
maxArticles_Fifteen(t) == maxArticlesDefault

\* lines 71-76
maxArticles(t) == IF t = "global" THEN maxArticlesGlobal ELSE maxArticlesDefault

\* lines 90-94
LimitRequestSummary(item) ==
    LET short == Shorten(item.summary, item.fill, maxRequestSummary, keptRequestSummary)
    IN  [item EXCEPT !.summary = short.text, !.fill = short.fill]

\* mutant: the client has no test for an empty input
RequestItems_AlwaysAsks(newsItems, t) ==
    LET limited == IF Len(newsItems) > maxArticles(t)
                   THEN SubSeq(newsItems, 1, maxArticles(t)) ELSE newsItems
    IN  [asked |-> TRUE,
         items |-> [i \in DOMAIN limited |-> LimitRequestSummary(limited[i])]]

\* lines 64-97: whether a request is made, and the items marshalled into it
RequestItems(newsItems, t) ==
    IF Len(newsItems) = 0 THEN [asked |-> FALSE, items |-> <<>>]
    ELSE LET limited == IF Len(newsItems) > maxArticles(t)
                        THEN SubSeq(newsItems, 1, maxArticles(t)) ELSE newsItems
         IN  [asked |-> TRUE,
              items |-> [i \in DOMAIN limited |-> LimitRequestSummary(limited[i])]]

\* lines 78-94 as the caller sees them: newsItems[:maxArticles] shares the
\* array of the caller's slice, and the loop assigns to its elements, so
\* the caller's first maxArticles items are the ones marshalled; without
\* a request (line 64) nothing is assigned
CallerItems(newsItems, t) ==
    IF Len(newsItems) = 0 THEN newsItems
    ELSE [i \in DOMAIN newsItems |->
            IF i <= maxArticles(t) THEN LimitRequestSummary(newsItems[i])
            ELSE newsItems[i]]

\* Client.ProcessNewsByType(newsItems, t), the service call yielding svc
ClientResult(newsItems, t, svc) ==
    IF RequestItems(newsItems, t).asked
    THEN LET r == ProcessNewsByType(svc)
         IN  [asked |-> TRUE, err |-> r.err, news |-> r.news]
    ELSE [asked |-> FALSE, err |-> "", news |-> <<>>]

\* Processor.ProcessNewsItemsByType(newsItems, t), lines 44-85
ProcessorResult(newsItems, t, svc) ==
    IF Len(newsItems) = 0
    THEN [called |-> FALSE, asked |-> FALSE, err |-> "", news |-> <<>>]
    ELSE LET c == ClientResult(newsItems, t, svc)
             r == IF c.asked THEN ProcessNewsItemsByType(svc)
                  ELSE [err |-> "", news |-> <<>>]
         IN  [called |-> TRUE, asked |-> c.asked, err |-> r.err, news |-> r.news]

\* ---- the inputs of the model: items as the scraper returns them
Article(summary, fill) ==
    [at |-> 0, title |-> <<"AI">>, summary |-> summary, fill |-> fill,
     url |-> "u", publishedAt |-> Fresh]

Brief == Article(<<"x">>, 0)

\* summaries of 200, 201 and 300 bytes, the last one cut by the scraper
Lengthy ==
    {Article(<<"stock", "#">>, maxRequestSummary - 5),
     Article(<<"stock", "#">>, maxRequestSummary - 4),
     Article(<<"stock", "#", "...">>, maxSummaryLen - 8)}

\* long items after the first p of a run of k brief ones, each item tagged
\* with its place in the input
ArticlesOf(long, k, p) ==
    LET all == [i \in 1..p |-> Brief] \o long \o [i \in 1..(k - p) |-> Brief]
    IN  [i \in DOMAIN all |-> [all[i] EXCEPT !.at = i]]

NoResult == [asked |-> FALSE, err |-> "", news |-> <<>>]

NotAsked == [done |-> FALSE, asked |-> FALSE, items |-> <<>>, caller |-> <<>>,
             client |-> NoResult,
             processor |-> [called |-> FALSE, asked |-> FALSE, err |-> "", news |-> <<>>]]

RequestIdle ==
    /\ reqIn = [type |-> "ai", items |-> <<>>]
    /\ reqOut = NotAsked

\* Client.ProcessNewsByType reaches the service call, or returns before it,
\* and returns, called by itself and through the Processor; svc is what the
\* service call yields if it is made
BuildRequest ==
    /\ ~reqOut.done
    /\ \E svc \in SvcOutcomes({ItemA}) :
          LET r == RequestItems(reqIn.items, reqIn.type)
          IN  reqOut' = [done |-> TRUE, asked |-> r.asked, items |-> r.items,
                         caller |-> CallerItems(reqIn.items, reqIn.type),
                         client |-> ClientResult(reqIn.items, reqIn.type, svc),
                         processor |-> ProcessorResult(reqIn.items, reqIn.type, svc)]
    /\ UNCHANGED <<reqIn, feedVars, zoneVars, readVars, cleanVars, schedVars, scrapeVars, curateVars>>

(***************************************************************************)
(* updateNextRunTime in the zone of Config.Timezone.  A zone is its offset *)
(* from UTC in hours (std), and a daylight-saving transition: from instant *)
(* at on, the offset is std + shift.  The transitions of the model happen  *)
(* at 02:00 local time of day 1; shift 0 is a zone without transition,     *)
(* such as UTC or the default Asia/Jakarta.                                *)
(***************************************************************************)
TransitionHour == 2

Zone(std, shift) ==
    [std |-> std, shift |-> shift, at |-> Date(1, TransitionHour) - std]

Zones == {Zone(0, 0), Zone(7, 0), Zone(-5, 1), Zone(-4, -1)}

\* the offset of the zone at instant u
Offset(z, u) == IF u >= z.at THEN z.std + z.shift ELSE z.std

\* t.In(location): the wall clock at instant u, in hours
WallClock(z, u) == u + Offset(z, u)

\* time.Date(y, m, d, h, 0, 0, 0, location): the instant of a wall-clock
\* time (08:00 is never skipped or repeated by a transition at 02:00)
DateIn(z, d, h) ==
    CHOOSE u \in (Date(d, h) - HoursPerDay)..(Date(d, h) + HoursPerDay) :
        WallClock(z, u) = Date(d, h)

\* lines 401-407: next, as an instant
NextRunIn(z, u) ==
    LET local == WallClock(z, u)
        next  == DateIn(z, Day(local), CronHour)
    IN  IF Hour(local) >= CronHour THEN next + HoursPerDay ELSE next

ZoneIdle ==
    /\ zoneIn = [zone |-> Zone(0, 0), now |-> 0]
    /\ zoneOut = [done |-> FALSE, next |-> 0, NextRun |-> Format(0)]

\* Scheduler.updateNextRunTime
ComputeNextRun ==
    /\ ~zoneOut.done
    /\ LET next == NextRunIn(zoneIn.zone, zoneIn.now)
       IN  zoneOut' = [done |-> TRUE, next |-> next,
                       NextRun |-> Format(WallClock(zoneIn.zone, next))]
    /\ UNCHANGED <<zoneIn, feedVars, reqVars, readVars, cleanVars, schedVars, scrapeVars, curateVars>>

(***************************************************************************)
(* The JobStatus behind Scheduler.mu, field by field: the mutations of a   *)
(* run (executeNewsJobByType lines 302-305, updateJobStatus,               *)
(* updateNextRunTime) and the copy GetJobStatus makes.                     *)
(***************************************************************************)
Readers == {"g1", "g2"}

\* the fields of models.JobStatus, in the order of the copy
Fields == <<"LastRun", "Status", "NewsCount", "Error", "NextRun">>

\* NewScheduler, lines 200-204 (NextRun 0 is the text "08:00 WIB daily")
InitialCell ==
    [LastRun |-> 0, Status |-> "initialized", NewsCount |-> 0, Error |-> "",
     NextRun |-> 0]

\* var status models.JobStatus
ZeroStatus ==
    [LastRun |-> 0, Status |-> "", NewsCount |-> 0, Error |-> "", NextRun |-> 0]

\* the assignments of one mutation of run n, in program order
Writes(op, n, failed) ==
    CASE op = "begin"  -> <<[f |-> "Status", v |-> "running"], [f |-> "Error", v |-> ""]>>
      [] op = "update" -> <<[f |-> "LastRun", v |-> n],
                            [f |-> "Status", v |-> IF failed THEN "failed" ELSE "completed"],
                            [f |-> "NewsCount", v |-> IF failed THEN 0 ELSE n],
                            [f |-> "Error", v |-> IF failed THEN "failed to scrape news" ELSE ""]>>
      [] op = "next"   -> <<[f |-> "NextRun", v |-> n]>>
      [] OTHER         -> <<>>

\* the mutation after op of run n
NextOp(op, n) ==
    CASE op = "begin"  -> [op |-> "update", run |-> n]
      [] op = "update" -> [op |-> "next", run |-> n]
      [] OTHER         -> IF n < MaxRuns THEN [op |-> "begin", run |-> n + 1]
                          ELSE [op |-> "end", run |-> n]

\* s.mu.Lock() can return
CanLock == ~statusMu.w /\ statusMu.r = {}

\* s.mu.RLock() can return
CanRLock == ~statusMu.w

\* mutant: GetJobStatus returns the Scheduler's own record
GetJobStatusResult_Pointer(copy) == [alias |-> TRUE, snap |-> copy]

\* lines 368-369: status := *s.jobStatus; return &status
GetJobStatusResult(copy) == [alias |-> FALSE, snap |-> copy]

\* the record a caller of GetJobStatus holds
Held(r) == IF rd[r].alias THEN cell ELSE rd[r].snap

NoWriter == [op |-> "end", run |-> 0, step |-> 0, held |-> FALSE, failed |-> FALSE]
NoReader == [pc |-> "off", k |-> 0, alias |-> FALSE, snap |-> ZeroStatus]

ReadIdle ==
    /\ statusMu = [w |-> FALSE, r |-> {}]
    /\ cell = InitialCell
    /\ wr = NoWriter
    /\ rd = [r \in Readers |-> NoReader]
    /\ committed = {InitialCell}

\* s.mu.Lock() of a mutation; the outcome of the run is known at its update
WLock ==
    /\ wr.op # "end" /\ ~wr.held
    /\ CanLock
    /\ statusMu' = [statusMu EXCEPT !.w = TRUE]
    /\ \E failed \in BOOLEAN :
          wr' = [wr EXCEPT !.held = TRUE, !.step = 0,
                           !.failed = IF wr.op = "update" THEN failed ELSE FALSE]
    /\ UNCHANGED <<cell, rd, committed>>
    /\ UNCHANGED <<feedVars, reqVars, zoneVars, cleanVars, schedVars, scrapeVars, curateVars>>

\* one assignment to a field of s.jobStatus
WWrite ==
    /\ wr.held
    /\ wr.step < Len(Writes(wr.op, wr.run, wr.failed))
    /\ LET w == Writes(wr.op, wr.run, wr.failed)[wr.step + 1]
       IN  cell' = [cell EXCEPT ![w.f] = w.v]
    /\ wr' = [wr EXCEPT !.step = @ + 1]
    /\ UNCHANGED <<statusMu, rd, committed>>
    /\ UNCHANGED <<feedVars, reqVars, zoneVars, cleanVars, schedVars, scrapeVars, curateVars>>

\* s.mu.Unlock() of a mutation
WUnlock ==
    /\ wr.held
    /\ wr.step = Len(Writes(wr.op, wr.run, wr.failed))
    /\ statusMu' = [statusMu EXCEPT !.w = FALSE]
    /\ committed' = committed \cup {cell}
    /\ LET n == NextOp(wr.op, wr.run)
       IN  wr' = [op |-> n.op, run |-> n.run, step |-> 0, held |-> FALSE,
                  failed |-> FALSE]
    /\ UNCHANGED <<cell, rd>>
    /\ UNCHANGED <<feedVars, reqVars, zoneVars, cleanVars, schedVars, scrapeVars, curateVars>>

\* GetJobStatus, line 365: s.mu.RLock()
RLock(r) ==
    /\ rd[r].pc = "idle"
    /\ CanRLock
    /\ statusMu' = [statusMu EXCEPT !.r = @ \cup {r}]
    /\ rd' = [rd EXCEPT ![r].pc = "copy", ![r].k = 0]
    /\ UNCHANGED <<cell, wr, committed>>
    /\ UNCHANGED <<feedVars, reqVars, zoneVars, cleanVars, schedVars, scrapeVars, curateVars>>

\* line 368: one field of *s.jobStatus is copied
RCopy(r) ==
    /\ rd[r].pc = "copy"
    /\ rd[r].k < Len(Fields)
    /\ LET f == Fields[rd[r].k + 1]
       IN  rd' = [rd EXCEPT ![r].k = @ + 1, ![r].snap = [@ EXCEPT ![f] = cell[f]]]
    /\ UNCHANGED <<statusMu, cell, wr, committed>>
    /\ UNCHANGED <<feedVars, reqVars, zoneVars, cleanVars, schedVars, scrapeVars, curateVars>>

\* lines 366 and 369: the deferred RUnlock and the return
RUnlock(r) ==
    /\ rd[r].pc = "copy"
    /\ rd[r].k = Len(Fields)
    /\ statusMu' = [statusMu EXCEPT !.r = @ \ {r}]
    /\ LET res == GetJobStatusResult(rd[r].snap)
       IN  rd' = [rd EXCEPT ![r].pc = "returned", ![r].alias = res.alias,
                            ![r].snap = res.snap]
    /\ UNCHANGED <<cell, wr, committed>>
    /\ UNCHANGED <<feedVars, reqVars, zoneVars, cleanVars, schedVars, scrapeVars, curateVars>>

\* the caller writes to the record it was given
Edit(r) ==
    /\ rd[r].pc = "returned"
    /\ IF rd[r].alias
       THEN /\ cell' = [cell EXCEPT !.Status = "edited"]
            /\ rd' = [rd EXCEPT ![r].pc = "edited"]
       ELSE /\ rd' = [rd EXCEPT ![r].pc = "edited", ![r].snap.Status = "edited"]
            /\ UNCHANGED cell
    /\ UNCHANGED <<statusMu, wr, committed>>
    /\ UNCHANGED <<feedVars, reqVars, zoneVars, cleanVars, schedVars, scrapeVars, curateVars>>

(***************************************************************************)
(* cleanText on strings: a string is the sequence of its characters.  On   *)
(* strings over Chars the only tags of the function that can occur are     *)
(* "<p>" and "</p>"; the other ReplaceAll calls find nothing to replace.   *)
(***************************************************************************)
Chars == {"<", "/", "p", ">", " ", "\n", "\t"}

TagP == <<"<", "p", ">">>

TagEndP == <<"<", "/", "p", ">">>

\* strings.Contains
ContainsString(str, sub) ==
    \E i \in 1..(Len(str) - Len(sub) + 1) : SubSeq(str, i, i + Len(sub) - 1) = sub

\* strings.ReplaceAll: the non-overlapping occurrences of old, from the
\* left, are replaced; what a replacement brings together is not looked
\* at again
RECURSIVE ReplaceString(_, _, _)
ReplaceString(str, old, new) ==
    IF Len(str) < Len(old) THEN str
    ELSE IF SubSeq(str, 1, Len(old)) = old
         THEN new \o ReplaceString(SubSeq(str, Len(old) + 1, Len(str)), old, new)
         ELSE <<Head(str)>> \o ReplaceString(Tail(str), old, new)

\* strings.TrimSpace
TrimString(str) ==
    LET solid == {i \in DOMAIN str : str[i] \notin {" ", "\n", "\t"}}
    IN  IF solid = {} THEN <<>> ELSE SubSeq(str, Smallest(solid), Largest(solid))

\* lines 411-414: for strings.Contains(text, "  ") { ReplaceAll("  ", " ") }
RECURSIVE CollapseString(_)
CollapseString(str) ==
    IF ContainsString(str, <<" ", " ">>)
    THEN CollapseString(ReplaceString(str, <<" ", " ">>, <<" ">>))
    ELSE str

\* cleanText, lines 389-417
cleanString(str) ==
    LET untagged == ReplaceString(ReplaceString(str, TagP, <<>>), TagEndP, <<" ">>)
        trimmed  == TrimString(untagged)
        spaced   == ReplaceString(ReplaceString(trimmed, <<"\n">>, <<" ">>),
                                  <<"\t">>, <<" ">>)
    IN  CollapseString(spaced)

CleanIdle ==
    /\ cleanIn = <<>>
    /\ cleanOut = [done |-> FALSE, text |-> <<>>]

\* cleanText returns
Clean ==
    /\ ~cleanOut.done
    /\ cleanOut' = [done |-> TRUE, text |-> cleanString(cleanIn)]
    /\ UNCHANGED <<cleanIn, feedVars, reqVars, zoneVars, readVars, schedVars, scrapeVars, curateVars>>

UnitIdle ==
    /\ FeedIdle
    /\ RequestIdle
    /\ ZoneIdle
    /\ ReadIdle
    /\ CleanIdle

\* time does not pass in the specifications that have no Scheduler
ClockIdle == now = 0

(***************************************************************************)
(* Spec: one started Scheduler, its cron invocations (one per 08:00 of the *)
(* horizon) and a direct caller of RunManualJobByType.                     *)
(***************************************************************************)
Init ==
    /\ now \in ClockHours
    /\ SchedInit(CronJobs \cup Directs)
    /\ UnitIdle
    /\ ScrapeIdle
    /\ CurateIdle

Next ==
    \/ Start
    \/ Tick
    \/ \E d \in Directs, t \in TypeInputs : CallManual(d, t)
    \/ \E j \in Directs : ManualEnter(j)
    \/ \E j \in CronJobs : CronEnter(j)
    \/ \E j \in Jobs : ExecBegin(j)
    \/ \E j \in Jobs : ScrapeReturn(j)
    \/ \E j \in Jobs : CurateReturn(j)
    \/ \E j \in Jobs : DeliverReturn(j)
    \/ \E j \in CronJobs : NoticeReturn(j)
    \/ \E j \in Jobs : Release(j)
    \/ \E j \in CronJobs : CronUpdateNextRun(j)

Spec == Init /\ [][Next]_vars

(***************************************************************************)
(* SpecHttp: the Scheduler NewHandlers builds, and two POST /trigger       *)
(* requests.                                                               *)
(***************************************************************************)
InitHttp ==
    /\ now \in ClockHours
    /\ SchedInit(Reqs)
    /\ UnitIdle
    /\ ScrapeIdle
    /\ CurateIdle

NextHttp ==
    \/ Tick
    \/ \E r \in Reqs, t \in TypeInputs : TriggerNews(r, t)
    \/ \E j \in Reqs : ManualEnter(j)
    \/ \E j \in Jobs : ExecBegin(j)
    \/ \E j \in Jobs : ScrapeReturn(j)
    \/ \E j \in Jobs : CurateReturn(j)
    \/ \E j \in Jobs : DeliverReturn(j)
    \/ \E j \in Jobs : Release(j)

SpecHttp == InitHttp /\ [][NextHttp]_vars

(***************************************************************************)
(* SpecProcess: the whole process, with the started Scheduler and the one  *)
(* of the handlers side by side: one cron invocation, one request.         *)
(***************************************************************************)
InitProcess ==
    /\ now \in ClockHours
    /\ SchedInit({"c1", "r1"})
    /\ UnitIdle
    /\ ScrapeIdle
    /\ CurateIdle

NextProcess ==
    \/ Start
    \/ Tick
    \/ \E r \in Reqs, t \in TypeInputs : TriggerNews(r, t)
    \/ \E j \in Reqs : ManualEnter(j)
    \/ \E j \in CronJobs : CronEnter(j)
    \/ \E j \in Jobs : ExecBegin(j)
    \/ \E j \in Jobs : ScrapeReturn(j)
    \/ \E j \in Jobs : CurateReturn(j)
    \/ \E j \in Jobs : DeliverReturn(j)
    \/ \E j \in CronJobs : NoticeReturn(j)
    \/ \E j \in Jobs : Release(j)
    \/ \E j \in CronJobs : CronUpdateNextRun(j)

SpecProcess == InitProcess /\ [][NextProcess]_vars

(***************************************************************************)
(* SpecPreview: the endpoints of the handlers: a POST /trigger request and *)
(* a GET /latest request, on the Scheduler NewHandlers builds.             *)
(***************************************************************************)
InitPreview ==
    /\ now \in ClockHours
    /\ SchedInit({"r1"} \cup Previews)
    /\ UnitIdle
    /\ ScrapeIdle
    /\ CurateIdle

NextPreview ==
    \/ Tick
    \/ \E r \in Reqs, t \in TypeInputs : TriggerNews(r, t)
    \/ \E j \in Reqs : ManualEnter(j)
    \/ \E j \in Jobs : ExecBegin(j)
    \/ \E j \in Jobs : ScrapeReturn(j)
    \/ \E j \in Jobs : CurateReturn(j)
    \/ \E j \in Jobs : DeliverReturn(j)
    \/ \E j \in Jobs : Release(j)
    \/ \E p \in Previews : PreviewBegin(p)
    \/ \E p \in Previews : PreviewScrapeReturn(p)
    \/ \E p \in Previews : PreviewCurateReturn(p)

SpecPreview == InitPreview /\ [][NextPreview]_vars

(***************************************************************************)
(* SpecStages: the calls one run or one preview makes to the external      *)
(* collaborators: a cron invocation and a RunManualJob call on the started *)
(* Scheduler, and a GET /latest request.                                   *)
(***************************************************************************)
InitStages ==
    /\ now = CronHour - 1
    /\ SchedInit({"c1"} \cup Directs \cup Previews)
    /\ UnitIdle
    /\ ScrapeIdle
    /\ CurateIdle

NextStages ==
    \/ Start
    \/ Tick
    \/ \E d \in Directs : CallManual(d, "ai")
    \/ \E j \in Directs : ManualEnter(j)
    \/ \E j \in CronJobs : CronEnter(j)
    \/ \E j \in Jobs : ExecBegin(j)
    \/ \E j \in Jobs : ScrapeReturn(j)
    \/ \E j \in Jobs : CurateReturn(j)
    \/ \E j \in Jobs : DeliverReturn(j)
    \/ \E j \in CronJobs : NoticeReturn(j)
    \/ \E j \in Jobs : Release(j)
    \/ \E j \in CronJobs : CronUpdateNextRun(j)
    \/ \E p \in Previews : PreviewBegin(p)
    \/ \E p \in Previews : PreviewScrapeReturn(p)
    \/ \E p \in Previews : PreviewCurateReturn(p)

SpecStages == InitStages /\ [][NextStages]_vars

(***************************************************************************)
(* SpecScrape: one call of ScrapeNewsByType                                *)
(***************************************************************************)
InitScrapeCall ==
    /\ ClockIdle
    /\ SchedInit({})
    /\ UnitIdle
    /\ InitScrape
    /\ CurateIdle

NextScrape ==
    \/ \E src \in Sources : FetchReturn(src)
    \/ \E src \in Sources : Lock(src)
    \/ \E src \in Sources : AppendRead(src)
    \/ \E src \in Sources : AppendWrite(src)
    \/ \E src \in Sources : Unlock(src)
    \/ Join

SpecScrape == InitScrapeCall /\ [][NextScrape]_vars

(***************************************************************************)
(* SpecCurate: one curation call on a non-empty input, for every outcome   *)
(* of the ranking service call                                             *)
(***************************************************************************)
InitCurate ==
    /\ ClockIdle
    /\ SchedInit({})
    /\ UnitIdle
    /\ ScrapeIdle
    /\ cfgMax \in 1..MaxConfigured
    /\ aiResp \in SvcOutcomes(RespItems)
    /\ curated = NotCurated
    /\ ParseIdle

NextCurate ==
    \/ Curate

SpecCurate == InitCurate /\ [][NextCurate]_vars

(***************************************************************************)
(* SpecParse: the handling of one ranking response text, for every text    *)
(* of up to MaxText tokens                                                 *)
(***************************************************************************)
InitParse ==
    /\ ClockIdle
    /\ SchedInit({})
    /\ UnitIdle
    /\ ScrapeIdle
    /\ cfgMax = maxNewsItems
    /\ aiResp = [err |-> "", news |-> <<>>]
    /\ curated = NotCurated
    /\ rawText \in SeqsUpTo(TextTokens, MaxText)
    /\ parsed = NotParsed

NextParse ==
    \/ Parse

SpecParse == InitParse /\ [][NextParse]_vars

(***************************************************************************)
(* SpecFeed: one fetch of one feed, for every feed of the model and every  *)
(* category ScrapeNewsByType is asked for                                  *)
(***************************************************************************)
InitFeed ==
    /\ ClockIdle
    /\ SchedInit({})
    /\ ScrapeIdle
    /\ CurateIdle
    /\ \E t \in TypeInputs, err \in BOOLEAN :
          \/ /\ err
             /\ feedIn = [type |-> t, err |-> TRUE, items |-> <<>>]
          \/ /\ ~err
             /\ \E odd \in SeqsUpTo(Entries, MaxOdd), k \in 0..MaxRun :
                   \E p \in Places(k) :
                      feedIn = [type |-> t, err |-> FALSE, items |-> FeedOf(odd, k, p)]
    /\ feedOut = NotFetched
    /\ RequestIdle
    /\ ZoneIdle
    /\ ReadIdle
    /\ CleanIdle

NextFeed ==
    \/ FeedScrape

SpecFeed == InitFeed /\ [][NextFeed]_vars

(***************************************************************************)
(* SpecRequest: the building of one ranking request, for every input of    *)
(* the model and every category                                            *)
(***************************************************************************)
InitRequest ==
    /\ ClockIdle
    /\ SchedInit({})
    /\ ScrapeIdle
    /\ CurateIdle
    /\ FeedIdle
    /\ \E t \in TypeInputs, long \in SeqsUpTo(Lengthy, MaxLong), k \in 0..MaxBrief :
          \E p \in Places(k) :
             reqIn = [type |-> t, items |-> ArticlesOf(long, k, p)]
    /\ reqOut = NotAsked
    /\ ZoneIdle
    /\ ReadIdle
    /\ CleanIdle

NextRequest ==
    \/ BuildRequest

SpecRequest == InitRequest /\ [][NextRequest]_vars

(***************************************************************************)
(* SpecZone: one updateNextRunTime call, for every zone of the model and   *)
(* every hour of three days                                                *)
(***************************************************************************)
InitZone ==
    /\ ClockIdle
    /\ SchedInit({})
    /\ ScrapeIdle
    /\ CurateIdle
    /\ FeedIdle
    /\ RequestIdle
    /\ zoneIn \in {[zone |-> z, now |-> u] : z \in Zones, u \in HoursPerDay..MaxZoneClock}
    /\ zoneOut = [done |-> FALSE, next |-> 0, NextRun |-> Format(0)]
    /\ ReadIdle
    /\ CleanIdle

NextZone ==
    \/ ComputeNextRun

SpecZone == InitZone /\ [][NextZone]_vars

(***************************************************************************)
(* SpecRead: the status mutations of MaxRuns runs on one Scheduler, and    *)
(* two callers of GetJobStatus                                             *)
(***************************************************************************)
InitRead ==
    /\ ClockIdle
    /\ SchedInit({})
    /\ ScrapeIdle
    /\ CurateIdle
    /\ FeedIdle
    /\ RequestIdle
    /\ ZoneIdle
    /\ statusMu = [w |-> FALSE, r |-> {}]
    /\ cell = InitialCell
    /\ wr = [NoWriter EXCEPT !.op = "begin", !.run = 1]
    /\ rd = [r \in Readers |-> [NoReader EXCEPT !.pc = "idle"]]
    /\ committed = {InitialCell}
    /\ CleanIdle

NextRead ==
    \/ WLock
    \/ WWrite
    \/ WUnlock
    \/ \E r \in Readers : RLock(r)
    \/ \E r \in Readers : RCopy(r)
    \/ \E r \in Readers : RUnlock(r)
    \/ \E r \in Readers : Edit(r)

SpecRead == InitRead /\ [][NextRead]_vars

(***************************************************************************)
(* SpecRelease: a scheduled and a manual trigger on one Scheduler, whose   *)
(* goroutines keep running: a stage call that was made returns, the        *)
(* statement after it is executed, and the mutex, held for a few           *)
(* assignments only, is obtained by whoever asks for it.                   *)
(***************************************************************************)
InitRelease ==
    /\ now = CronHour - 1
    /\ SchedInit({"c1"} \cup Directs)
    /\ UnitIdle
    /\ ScrapeIdle
    /\ CurateIdle

NextRelease ==
    \/ Start
    \/ Tick
    \/ \E d \in Directs : CallManual(d, "ai")
    \/ \E j \in Directs : ManualEnter(j)
    \/ \E j \in CronJobs : CronEnter(j)
    \/ \E j \in Jobs : ExecBegin(j)
    \/ \E j \in Jobs : ScrapeReturn(j)
    \/ \E j \in Jobs : CurateReturn(j)
    \/ \E j \in Jobs : DeliverReturn(j)
    \/ \E j \in CronJobs : NoticeReturn(j)
    \/ \E j \in Jobs : Release(j)
    \/ \E j \in CronJobs : CronUpdateNextRun(j)

RunsProceed ==
    \A j \in Jobs :
        /\ WF_vars(ExecBegin(j))
        /\ WF_vars(ScrapeReturn(j))
        /\ WF_vars(CurateReturn(j))
        /\ WF_vars(DeliverReturn(j))
        /\ WF_vars(NoticeReturn(j))
        /\ WF_vars(Release(j))

SpecRelease == InitRelease /\ [][NextRelease]_vars /\ RunsProceed

(***************************************************************************)
(* SpecJoin: one ScrapeNewsByType call whose per-source fetches return     *)
(* (each source with at most one item) and whose goroutines are scheduled: *)
(* a goroutine that can take its next step takes it.                       *)
(***************************************************************************)
InitJoin ==
    /\ ClockIdle
    /\ SchedInit({})
    /\ UnitIdle
    /\ CurateIdle
    /\ srcOut \in [Sources -> SourceOutcomes(1)]
    /\ spc = [src \in Sources |-> "fetch"]
    /\ mu = NoHolder
    /\ slot = [src \in Sources |-> <<>>]
    /\ allNews = <<>>
    /\ errChan = <<>>
    /\ scrapeRet = NotReturned

NextJoin ==
    \/ \E src \in Sources : FetchReturn(src)
    \/ \E src \in Sources : Lock(src)
    \/ \E src \in Sources : AppendRead(src)
    \/ \E src \in Sources : AppendWrite(src)
    \/ \E src \in Sources : Unlock(src)
    \/ Join

GoroutinesProceed ==
    /\ \A src \in Sources :
          /\ WF_vars(FetchReturn(src))
          /\ WF_vars(Lock(src))
          /\ WF_vars(AppendRead(src))
          /\ WF_vars(AppendWrite(src))
          /\ WF_vars(Unlock(src))
    /\ WF_vars(Join)

SpecJoin == InitJoin /\ [][NextJoin]_vars /\ GoroutinesProceed

(***************************************************************************)
(* SpecClean: one cleanText call, for every string of up to MaxChars       *)
(* characters                                                              *)
(***************************************************************************)
InitClean ==
    /\ ClockIdle
    /\ SchedInit({})
    /\ ScrapeIdle
    /\ CurateIdle
    /\ FeedIdle
    /\ RequestIdle
    /\ ZoneIdle
    /\ ReadIdle
    /\ cleanIn \in SeqsUpTo(Chars, MaxChars)
    /\ cleanOut = [done |-> FALSE, text |-> <<>>]

NextClean ==
    \/ Clean

SpecClean == InitClean /\ [][NextClean]_vars

(***************************************************************************)
(* Properties                                                              *)
(***************************************************************************)
\* the jobs of Scheduler s that hold its single-flight guard
RunsOn(s) == {j \in Jobs : SchedOf(j) = s /\ pc[j] \in InRun}

\* C1: within one Scheduler at most one accepted job is between the guard
\* and its release in every reachable state; a job that passes the guard
\* while another job of the same Scheduler is in its run is rejected, and a
\* rejected job is finished at once, with no pipeline stage executed.
C1_AtMostOneRun ==
    /\ \A s \in Scheds : Cardinality(RunsOn(s)) <= 1
    /\ \A j \in Jobs :
          /\ pc[j] \in InRun => outcome[j] = "accepted" /\ running[SchedOf(j)]
          /\ outcome[j] = "rejected" => pc[j] = "done"
          /\ pc[j] = "guard" => outcome[j] = "none"

C1_RejectedWhileRunning ==
    \A j \in Jobs :
        (pc[j] = "guard" /\ pc'[j] # "guard" /\ RunsOn(SchedOf(j)) # {})
            => (outcome'[j] = "rejected" /\ pc'[j] = "done"
                /\ jobStatus' = jobStatus /\ running' = running)

C1_SingleFlight == [](C1_AtMostOneRun) /\ [][C1_RejectedWhileRunning]_vars

\* C1 witness: a trigger was rejected while another job of the same
\* Scheduler is inside the pipeline
C1_Witness ==
    \E j, k \in Jobs :
        /\ j # k /\ SchedOf(j) = SchedOf(k)
        /\ outcome[j] = "rejected"
        /\ pc[k] \in InPipeline

\* C2: at no instant are a scheduled run (a cron invocation) and a manually
\* triggered run (a POST /trigger request) in progress at the same time.
C2_SharedGuard ==
    ~ \E c \in CronJobs, r \in Reqs : pc[c] \in InRun /\ pc[r] \in InRun

\* C3: no POST /trigger caller is answered 200 "triggered successfully" for
\* a trigger the guard rejected; of two requests that both reached the
\* guard, the rejected one was answered 429.
C3_RejectedCallerTold429 ==
    \A r \in Reqs : outcome[r] = "rejected" => resp[r] = 429

\* C4: JobStatus.Status is always one of the four documented values, and it
\* changes only along initialized -> running, running -> success,
\* running -> failed, success -> running, failed -> running.
StatusValues == {"initialized", "running", "success", "failed"}
StatusSteps  == {<<"initialized", "running">>, <<"running", "success">>,
                 <<"running", "failed">>, <<"success", "running">>,
                 <<"failed", "running">>}

C4_StatusStep ==
    \A s \in Scheds :
        /\ jobStatus'[s].Status \in StatusValues
        /\ jobStatus'[s].Status # jobStatus[s].Status
              => <<jobStatus[s].Status, jobStatus'[s].Status>> \in StatusSteps

C4_StatusMachine == [][C4_StatusStep]_vars

\* C5: when executeNewsJobByType has returned an error to an accepted job,
\* the JobStatus is 'failed', its Error is the failing stage's error text,
\* and its NewsCount is 0 unless the failing stage was the delivery, where
\* it is the number of curated items.
C5_FailureRecorded ==
    \A j \in Jobs :
        (pc[j] \in {"notice", "release"} /\ retErr[j] # NoError) =>
            LET js == jobStatus[SchedOf(j)]
            IN  /\ js.Status = "failed"
                /\ js.Error = retErr[j].cause
                /\ IF retErr[j].what = "failed to send news to Discord"
                   THEN js.NewsCount = count[j] /\ count[j] > 0
                   ELSE js.NewsCount = 0

\* C6 (as claimed): in every reachable state the running flag of a
\* Scheduler is set if and only if its JobStatus.Status is 'running'.
C6_FlagMatchesStatus ==
    \A s \in Scheds : IsRunning(s) <=> (jobStatus[s].Status = "running")

\* C6 (amended): Status 'running' implies the running flag, and the flag is
\* set exactly while an accepted job is between the guard and its deferred
\* release (so it is also set before the first and after the last status
\* write of the run).
C6_StatusImpliesFlag ==
    \A s \in Scheds :
        /\ jobStatus[s].Status = "running" => IsRunning(s)
        /\ IsRunning(s) <=> (RunsOn(s) # {})

\* C6 witness: a run is in its pipeline with Status 'running' and the flag
\* set
C6_Witness ==
    \E j \in Jobs :
        /\ pc[j] \in {"scrape", "ai", "discord"}
        /\ jobStatus[SchedOf(j)].Status = "running"
        /\ IsRunning(SchedOf(j))

\* the earliest 08:00 strictly later than t
NextEight(t) ==
    CHOOSE u \in (t + 1)..(t + HoursPerDay) : Hour(u) = CronHour

\* no job of Scheduler s is between its trigger and the end of its call
Quiescent(s) ==
    \A j \in Jobs : SchedOf(j) = s => pc[j] \notin InRun \cup {"guard", "nextrun"}

\* C7: once a run on the started Scheduler has completed, NextRun is an
\* instant strictly later than the completion time (LastRun) and it is the
\* next 08:00 after an instant between the completion and now.
C7_NextRunInFuture ==
    (/\ started[MainSched]
     /\ Quiescent(MainSched)
     /\ \E j \in Jobs : SchedOf(j) = MainSched /\ pc[j] = "done"
                        /\ outcome[j] = "accepted")
    => LET js == jobStatus[MainSched]
       IN  /\ js.NextRun.kind = "instant"
           /\ Instant(js.NextRun) > js.LastRun
           /\ \E t \in js.LastRun..now : Instant(js.NextRun) = NextEight(t)

\* the sources of the call that returned at least one item
Yielding == {src \in Sources : srcOut[src].ok /\ srcOut[src].n > 0}
Failing  == {src \in Sources : ~srcOut[src].ok}

\* C8: ScrapeNewsByType returns an error (and no items) exactly when no
\* source returned an item, however many sources failed.
C8_FailsIffEmpty ==
    scrapeRet.done =>
        /\ (scrapeRet.err # "") <=> (Yielding = {})
        /\ scrapeRet.err # "" => scrapeRet.items = <<>>
        /\ scrapeRet.err = "" => Len(scrapeRet.items) > 0

\* C8 witness: the call succeeded although a source failed
C8_Witness ==
    /\ scrapeRet.done /\ scrapeRet.err = ""
    /\ Failing # {}

Occurrences(seq, x) == Cardinality({i \in DOMAIN seq : seq[i] = x})

RECURSIVE SumItems(_)
SumItems(k) ==
    IF k = 0 THEN 0
    ELSE SumItems(k - 1) + (IF srcOut[k].ok THEN srcOut[k].n ELSE 0)

\* C9: under every interleaving, a successful ScrapeNewsByType returns each
\* item of each source that did not fail exactly once and nothing else, and
\* the number of collected errors is the number of failed sources.
C9_UnionOfSources ==
    scrapeRet.done =>
        /\ Len(scrapeRet.errors) = Cardinality(Failing)
        /\ scrapeRet.err = "" =>
              /\ Len(scrapeRet.items) = SumItems(NumSources)
              /\ \A src \in Sources : \A i \in 1..MaxPerSource :
                    Occurrences(scrapeRet.items, [source |-> src, id |-> i])
                        = IF srcOut[src].ok /\ i <= srcOut[src].n THEN 1 ELSE 0

\* C9 witness: all but one source return MaxPerSource items, one fails, and
\* the call returns all the items and one error
C9_Witness ==
    /\ scrapeRet.done /\ scrapeRet.err = ""
    /\ Cardinality(Failing) = 1
    /\ \A src \in Sources \ Failing : srcOut[src].n = MaxPerSource
    /\ Len(scrapeRet.items) = (NumSources - 1) * MaxPerSource
    /\ Len(scrapeRet.errors) = 1

\* C10: the result of the ranking client holds at most maxNewsItems items,
\* and it is the decoded response cut at the end: its first maxNewsItems
\* items, in response order.
C10_AtMostMax ==
    (curated.done /\ curated.client.err = "") =>
        LET got == curated.client.news
        IN  /\ Len(got) <= maxNewsItems
            /\ Len(got) <= Len(aiResp.news)
            /\ got = SubSeq(aiResp.news, 1, Len(got))
            /\ Len(aiResp.news) >= maxNewsItems => Len(got) = maxNewsItems

\* C10 witness: the decoded response held more than maxNewsItems items
C10_Witness ==
    /\ curated.done /\ curated.client.err = ""
    /\ Len(aiResp.news) > maxNewsItems
    /\ Len(curated.client.news) = maxNewsItems

\* the positions of the items with a title and a url
Kept(news) == {i \in DOMAIN news : news[i].title # "" /\ news[i].url # ""}

\* the position of the k-th of them
KthKept(news, k) ==
    CHOOSE i \in Kept(news) : Cardinality({m \in Kept(news) : m <= i}) = k

\* C11: the result of ProcessNewsItemsByType holds, in order, exactly the
\* client's items that have a title and a url; each has its title, url and
\* relevance unchanged, its summary replaced by the title if it was empty,
\* and its source replaced by 'Unknown' if it was empty.
C11_ValidatedItems ==
    (curated.done /\ curated.result.err = "") =>
        LET got == curated.client.news
            out == curated.result.news
        IN  /\ curated.client.err = ""
            /\ Len(out) = Cardinality(Kept(got))
            /\ \A k \in DOMAIN out :
                  LET a == got[KthKept(got, k)]
                      b == out[k]
                  IN  /\ b.title # "" /\ b.url # ""
                      /\ b.title = a.title /\ b.url = a.url
                      /\ b.relevance = a.relevance
                      /\ b.summary = IF a.summary = "" THEN a.title ELSE a.summary
                      /\ b.source = IF a.source = "" THEN "Unknown" ELSE a.source

\* C11 witness: the response held an item without a title, then the item
\* with an empty summary, then the one with an empty source; the last two
\* come back repaired
C11_Witness ==
    /\ curated.done /\ curated.result.err = ""
    /\ curated.client.news = <<ItemNoTitle, ItemA, ItemNoURL, ItemB>>
    /\ curated.result.news = <<[ItemA EXCEPT !.summary = "A"],
                               [ItemB EXCEPT !.source = "Unknown"]>>

\* a caller came out of the curation stage without an error: a job that
\* went on to the delivery, or a preview answered 200
CuratedOk(c) ==
    IF c \in Previews
    THEN pc[c] = "done" /\ calls[c].rank > 0 /\ resp[c] = 200
    ELSE pc[c] = "discord"

\* C12: no caller comes out of the curation stage without an error and with
\* zero items: not a job, and not a preview.
C12_EmptyCurationIsError ==
    \A c \in Callers : CuratedOk(c) => count[c] > 0

\* the splits of the text into what precedes a JSON object, the object,
\* and what follows it
Splits(t) ==
    {ij \in (DOMAIN t) \X (DOMAIN t) :
        /\ ij[1] < ij[2]
        /\ t[ij[1]] = "{" /\ t[ij[2]] = "}"
        /\ IsObject(SubSeq(t, ij[1], ij[2]))}
Before(t, ij) == SubSeq(t, 1, ij[1] - 1)
After(t, ij)  == SubSeq(t, ij[2] + 1, Len(t))
Object(t, ij) == SubSeq(t, ij[1], ij[2])

Has(t, tok) == Positions(t, tok) # {}

\* prose, white space and code fences, with braces only next to prose
Wrapping(t) ==
    /\ \A i \in DOMAIN t : t[i] # "K"
    /\ (Has(t, "{") \/ Has(t, "}")) => Has(t, "P")

\* the handling yields what the bare object yields
SameAsBare(obj) ==
    /\ parsed.err = ""
    /\ parsed.value = Decode(obj)
    /\ parsed.value = HandleResponse(obj).value
    /\ HandleResponse(obj).err = ""

\* the error carries the response text: what was cut off it is white space
\* and code fence only
CarriesText ==
    \E i \in 1..(Len(rawText) + 1), j \in 0..Len(rawText) :
        /\ parsed.text = SubSeq(rawText, i, j)
        /\ \A k \in DOMAIN rawText :
              (k < i \/ k > j) => rawText[k] \in {"W", "F", "FJ"}

\* C13 (as claimed): a valid JSON object wrapped in arbitrary prose and/or
\* code fences is decoded to what the bare object decodes to.
C13_SalvageArbitraryProse ==
    parsed.done =>
        \A ij \in Splits(rawText) :
            (Wrapping(Before(rawText, ij)) /\ Wrapping(After(rawText, ij)))
                => SameAsBare(Object(rawText, ij))

\* C13 (amended): a valid JSON object wrapped in prose and/or code fences
\* with no "{" before it and no "}" after it is decoded to what the bare
\* object decodes to; a text in which the stretch from the first "{" to
\* the last "}" is not a JSON object yields a MalformedResponse error that
\* carries the text, less a surrounding code fence and white space.
C13_Salvage ==
    parsed.done =>
        /\ \A ij \in Splits(rawText) :
               (/\ Wrapping(Before(rawText, ij)) /\ Wrapping(After(rawText, ij))
                /\ ~Has(Before(rawText, ij), "{")
                /\ ~Has(After(rawText, ij), "}"))
                   => SameAsBare(Object(rawText, ij))
        /\ (/\ Solid(rawText) # <<>>
            /\ \A ij \in Splits(rawText) :
                  Has(Before(rawText, ij), "{") \/ Has(After(rawText, ij), "}"))
               => (parsed.err \in MalformedErrors /\ CarriesText)

\* C13 witness: an object inside a code fence with prose before it is
\* decoded, and a text with prose only is refused with the text
C13_Witness ==
    /\ parsed.done
    /\ \/ /\ rawText = <<"P", "FJ", "{", "K", "}">>
          /\ parsed.err = "" /\ parsed.value = <<"{", "K", "}">>
       \/ /\ rawText = <<"FJ", "{", "K", "}", "F">>
          /\ parsed.err = "" /\ parsed.value = <<"{", "K", "}">>

\* C14: within one run or one preview the ranking service is called at
\* most once and SendNewsByType at most once (never by a preview); a job
\* leaves the ranking call for the delivery or with an error returned and
\* a terminal status written, and it leaves the delivery with the run's
\* result; a preview leaves the ranking call with its answer.
C14_AtMostOnce ==
    \A c \in Callers :
        /\ calls[c].rank <= 1
        /\ calls[c].digest <= 1
        /\ c \in Previews => calls[c].digest = 0

C14_FailureSurfaced ==
    /\ \A j \in Jobs :
          /\ (pc[j] = "ai" /\ pc'[j] # "ai") =>
                \/ pc'[j] = "discord" /\ calls'[j].digest = 1
                \/ /\ pc'[j] \in {"notice", "release"}
                   /\ retErr'[j] # NoError
                   /\ calls'[j].rank = 1 /\ calls'[j].digest = 0
                   /\ jobStatus'[SchedOf(j)].Status # "running"
          /\ (pc[j] = "discord" /\ pc'[j] # "discord") =>
                /\ pc'[j] \in {"notice", "release"}
                /\ calls'[j].rank = 1 /\ calls'[j].digest = 1
                /\ \/ retErr'[j] = NoError
                   \/ /\ retErr'[j].what = "failed to send news to Discord"
                      /\ jobStatus'[SchedOf(j)].Status = "failed"
    /\ \A p \in Previews :
          (pc[p] = "pai" /\ pc'[p] # "pai") =>
              /\ pc'[p] = "done"
              /\ resp'[p] \in {200, 500}
              /\ calls'[p].rank = 1

C15_RetriedBeforeFailed ==
    \A j \in Jobs :
        (pc[j] \in {"notice", "release"}
            /\ retErr[j].what = "failed to process news with AI")
        => calls[j].rank >= 2

\* C16: a step of a preview changes no Scheduler state and no job, and the
\* preview calls neither SendNewsByType nor SendSimpleMessage; a preview is
\* never refused, whatever the running flag; a trigger is refused exactly
\* when the running flag is set, whatever the previews do.
C16_PreviewNeverRefused ==
    \A p \in Previews :
        /\ resp[p] # 429
        /\ pc[p] = "done" => resp[p] \in {200, 500}
        /\ calls[p].digest = 0 /\ calls[p].notice = 0

C16_PreviewStep ==
    /\ \A p \in Previews :
          pc'[p] # pc[p] =>
              /\ running' = running
              /\ jobStatus' = jobStatus
              /\ started' = started
              /\ \A j \in Jobs : pc'[j] = pc[j] /\ outcome'[j] = outcome[j]
    /\ \A r \in Reqs :
          (pc[r] = "idle" /\ pc'[r] # "idle") =>
              ((resp'[r] = 429) <=> running[HandlerSched])

C16_PreviewNoSideEffect ==
    [](C16_PreviewNeverRefused) /\ [][C16_PreviewStep]_vars

\* C16 witness: a preview is in its ranking call while a run holds the
\* guard of the handlers' Scheduler
C16_Witness ==
    \E p \in Previews, r \in Reqs :
        /\ pc[p] = "pai"
        /\ pc[r] \in InPipeline
        /\ running[HandlerSched]

\* C17: at most one ranking call and at most one delivery (digest or
\* failure notice) is in flight in the process.
C17_NoParallelCalls ==
    /\ Cardinality({c \in Callers : pc[c] \in {"ai", "pai"}}) <= 1
    /\ Cardinality({c \in Callers : pc[c] \in {"discord", "notice"}}) <= 1

\* C18: when exactly one run was accepted and it has finished, GET /status
\* returns the JobStatus that run wrote, in a terminal state.
C18_StatusShowsLastRun ==
    \A j \in Jobs :
        (/\ pc[j] \in {"nextrun", "done"}
         /\ outcome[j] = "accepted"
         /\ \A k \in Jobs \ {j} : outcome[k] # "accepted")
        => /\ GetStatus.Status \notin {"initialized", "running"}
           /\ GetStatus.Status = jobStatus[SchedOf(j)].Status
           /\ GetStatus.Error = jobStatus[SchedOf(j)].Error
           /\ GetStatus.LastRun = jobStatus[SchedOf(j)].LastRun

\* C19: a job has sent one failure notice when it is a scheduled run that
\* returned an error, and none otherwise; the step that ends the notice,
\* whether the notice failed or not, leaves JobStatus and the guard as they
\* are and leads to the release; the release clears the running flag and,
\* for a scheduled run, leads to the recomputation of NextRun.
C19_NoticeCount ==
    \A j \in Jobs :
        /\ calls[j].notice <= 1
        /\ j \notin CronJobs => (calls[j].notice = 0 /\ pc[j] # "notice")
        /\ pc[j] = "notice" => (calls[j].notice = 1 /\ retErr[j] # NoError)
        /\ pc[j] = "release" =>
              (calls[j].notice = 1 <=> (j \in CronJobs /\ retErr[j] # NoError))

C19_NoticeStep ==
    \A j \in Jobs :
        /\ (pc[j] = "notice" /\ pc'[j] # "notice") =>
              /\ pc'[j] = "release"
              /\ jobStatus' = jobStatus
              /\ running' = running /\ running[SchedOf(j)]
              /\ retErr'[j] = retErr[j]
        /\ (pc[j] = "release" /\ pc'[j] # "release") =>
              /\ ~running'[SchedOf(j)]
              /\ jobStatus' = jobStatus
              /\ pc'[j] = IF j \in CronJobs THEN "nextrun" ELSE "done"
        /\ (pc[j] = "nextrun" /\ pc'[j] # "nextrun") =>
              LET old == jobStatus[SchedOf(j)]
                  new == jobStatus'[SchedOf(j)]
              IN  /\ new = [old EXCEPT !.NextRun = new.NextRun]
                  /\ new.NextRun.kind = "instant"
                  /\ Instant(new.NextRun) = NextEight(now)

C19_BestEffortNotice == [](C19_NoticeCount) /\ [][C19_NoticeStep]_vars

\* C19 witness: the notice of a failed scheduled run failed and was logged;
\* the job is at its release with the run's failure still recorded
C19_Witness ==
    \E j \in CronJobs :
        /\ pc[j] = "release"
        /\ calls[j].logged /\ calls[j].notice = 1
        /\ jobStatus[SchedOf(j)].Status = "failed"
        /\ jobStatus[SchedOf(j)].Error = retErr[j].cause

\* C20: the step in which the delivery returns without error writes Status
\* 'success', NewsCount the number of curated items delivered, an empty
\* Error and LastRun the time of the step; the record stands until the
\* release.
C20_SuccessRecord ==
    \A j \in Jobs :
        (pc[j] = "release" /\ retErr[j] = NoError) =>
            LET js == jobStatus[SchedOf(j)]
            IN  /\ js.Status = "success"
                /\ js.NewsCount = count[j] /\ count[j] >= 1
                /\ js.Error = ""
                /\ js.LastRun <= now

C20_SuccessStep ==
    \A j \in Jobs :
        (pc[j] = "discord" /\ pc'[j] # "discord" /\ retErr'[j] = NoError) =>
            LET js == jobStatus'[SchedOf(j)]
            IN  /\ js.Status = "success"
                /\ js.NewsCount = count[j]
                /\ js.Error = ""
                /\ js.LastRun = now

C20_SuccessRecorded == [](C20_SuccessRecord) /\ [][C20_SuccessStep]_vars

\* C20 witness: a run delivered maxNewsItems items and is at its release
C20_Witness ==
    \E j \in Jobs :
        /\ pc[j] = "release" /\ retErr[j] = NoError
        /\ count[j] = maxNewsItems
        /\ jobStatus[SchedOf(j)].NewsCount = maxNewsItems

\* C21: a job in the ranking call came from an aggregation that returned
\* at least one item and has sent no digest; a job in the delivery holds at
\* least one curated item, has made one ranking call and this one delivery,
\* to discordGlobal when its type is 'global' and to the default client
\* otherwise; each stage is entered from the stage before it only.
C21_StageState ==
    \A j \in Jobs :
        /\ pc[j] \in {"begin", "scrape"} =>
              (calls[j].rank = 0 /\ calls[j].digest = 0)
        /\ pc[j] = "ai" =>
              (calls[j].scraped >= 1 /\ calls[j].rank = 1 /\ calls[j].digest = 0)
        /\ pc[j] = "discord" =>
              /\ count[j] >= 1
              /\ calls[j].rank = 1 /\ calls[j].digest = 1
              /\ calls[j].channel =
                    IF newsType[j] = "global" THEN "discordGlobal" ELSE "discord"
        /\ calls[j].digest <= 1

C21_StageStep ==
    \A j \in Jobs :
        /\ (pc'[j] = "scrape" /\ pc[j] # "scrape") => pc[j] = "begin"
        /\ (pc'[j] = "ai" /\ pc[j] # "ai") => pc[j] = "scrape"
        /\ (pc'[j] = "discord" /\ pc[j] # "discord") => pc[j] = "ai"
        /\ (pc'[j] = "begin" /\ pc[j] # "begin") =>
              (pc[j] = "guard" /\ outcome'[j] = "accepted")

C21_StagesInOrder == [](C21_StageState) /\ [][C21_StageStep]_vars

\* C21 witness: a run of type 'global' is delivering to discordGlobal
C21_Witness ==
    \E j \in Jobs :
        /\ pc[j] = "discord" /\ newsType[j] = "global"
        /\ calls[j].channel = "discordGlobal"
        /\ count[j] >= 1

\* the first n items of a sequence
FirstN(seq, n) == SubSeq(seq, 1, IF Len(seq) < n THEN Len(seq) ELSE n)

\* out holds, in order, the title and url of the first n valid items of src
ValidPrefixOf(out, src, n) ==
    /\ Len(out) = (IF Cardinality(Kept(src)) < n THEN Cardinality(Kept(src)) ELSE n)
    /\ \A k \in DOMAIN out :
          /\ out[k].title = src[KthKept(src, k)].title
          /\ out[k].url = src[KthKept(src, k)].url

\* C22 (as claimed): the curated result holds the first maxNewsItems valid
\* items of the decoded response.
C22_ValidateThenTruncate ==
    (curated.done /\ curated.result.err = "") =>
        ValidPrefixOf(curated.result.news, aiResp.news, maxNewsItems)

\* C22 (amended): the curated result holds the valid items among the first
\* maxNewsItems items of the decoded response, in response order: the cut
\* comes first, so it holds maxNewsItems items only if the first
\* maxNewsItems items of the response are all valid.
C22_TruncateThenValidate ==
    (curated.done /\ curated.result.err = "") =>
        LET first == FirstN(aiResp.news, maxNewsItems)
            out   == curated.result.news
        IN  /\ ValidPrefixOf(out, first, maxNewsItems)
            /\ Len(out) = Cardinality(Kept(first))
            /\ (Len(out) = maxNewsItems) <=>
                  (Len(first) = maxNewsItems /\ Kept(first) = DOMAIN first)

\* C22 witness: a response of maxNewsItems valid items after an invalid
\* first one yields maxNewsItems - 1 items
C22_Witness ==
    /\ curated.done /\ curated.result.err = ""
    /\ Len(aiResp.news) = maxNewsItems + 1
    /\ Kept(aiResp.news) = 2..(maxNewsItems + 1)
    /\ Len(curated.result.news) = maxNewsItems - 1

\* C23: a curation result is never longer than Config.MaxNewsItems.
C23_AtMostConfigured ==
    (curated.done /\ curated.result.err = "") =>
        Len(curated.result.news) <= cfgMax

\* ---- the feed fetcher
\* the feed entry a returned item was built from
EntryOf(item) == feedIn.items[item.at]

\* the k-th smallest element of a set of positions
KthOf(S, k) == CHOOSE i \in S : Cardinality({j \in S : j <= i}) = k

Returned == feedOut.done /\ ~feedOut.err

\* C24: every item the feed fetcher returns has a non-empty title and a
\* non-empty url; an entry whose cleaned title or whose link is empty is
\* not returned.
C24_TitleAndUrlPresent ==
    Returned =>
        \A k \in DOMAIN feedOut.items :
            feedOut.items[k].title # <<>> /\ feedOut.items[k].url # ""

\* the timestamp of an entry: published, else updated, else the fetch time
StampOf(e) ==
    CASE e.pub # NoStamp -> e.pub
      [] e.pub = NoStamp /\ e.upd # NoStamp -> e.upd
      [] OTHER -> FetchTime

Recent(e) == FetchTime - StampOf(e) <= RecencyHours

\* the keyword predicate of a category on the raw title and description
Matches(e, category) ==
    LET words == {ToLower(e.title[i]) : i \in DOMAIN e.title}
                 \cup {ToLower(e.desc[i]) : i \in DOMAIN e.desc}
    IN  IF category = "global" THEN "stock" \in words ELSE "ai" \in words

\* the entries of the feed that pass both filters
Passing ==
    {i \in DOMAIN feedIn.items :
        Recent(feedIn.items[i]) /\ Matches(feedIn.items[i], NormalType(feedIn.type))}

\* C25: every returned item carries the timestamp of its entry (published,
\* else updated, else the fetch time), which is not older than 24 hours
\* before the fetch, and its raw title and description match the keyword
\* predicate of the category fetched; an entry failing either test is not
\* in the result.
C25_RecentAndRelevant ==
    Returned =>
        /\ \A k \in DOMAIN feedOut.items :
              /\ feedOut.items[k].publishedAt = StampOf(EntryOf(feedOut.items[k]))
              /\ Recent(EntryOf(feedOut.items[k]))
              /\ Matches(EntryOf(feedOut.items[k]), NormalType(feedIn.type))
        /\ \A i \in DOMAIN feedIn.items :
              i \notin Passing => \A k \in DOMAIN feedOut.items : feedOut.items[k].at # i

\* C25 witness: a fetch returned items of a feed that also held an entry
\* that is too old and an entry without keyword
C25_Witness ==
    /\ Returned /\ feedOut.items # <<>>
    /\ \E i \in DOMAIN feedIn.items : ~Recent(feedIn.items[i])
    /\ feedIn.type = "sports"

\* the limit of a category
LimitOf(category) ==
    IF category = "global" THEN maxItemsPerSourceGlobal ELSE maxItemsPerSource

\* C26: the fetch returns the first N passing entries in feed order, N
\* being 12 for 'ai' and 8 for 'global'; every summary is at most 300
\* bytes long, one that was longer being its first 297 bytes and "...".
C26_FirstNInFeedOrder ==
    Returned =>
        LET out == feedOut.items
            N   == LimitOf(NormalType(feedIn.type))
        IN  /\ Len(out) = (IF Cardinality(Passing) < N THEN Cardinality(Passing) ELSE N)
            /\ \A k \in DOMAIN out :
                  LET e  == EntryOf(out[k])
                      c  == cleanText(e.desc)
                  IN  /\ out[k].at = KthOf(Passing, k)
                      /\ Bytes(out[k].summary, out[k].fill) <= maxSummaryLen
                      /\ IF Bytes(c, e.fill) > maxSummaryLen
                         THEN /\ out[k].summary = Append(c, "...")
                              /\ out[k].fill <= e.fill
                              /\ Bytes(c, out[k].fill) = keptSummaryLen
                         ELSE out[k].summary = c /\ out[k].fill = e.fill

\* C26 witness: a fetch for 'global' of a feed with more than 8 passing
\* entries returned 8 items, the first with a summary that was cut
C26_Witness ==
    /\ Returned /\ feedIn.type = "global"
    /\ Cardinality(Passing) > maxItemsPerSourceGlobal
    /\ Len(feedOut.items) = maxItemsPerSourceGlobal
    /\ Bytes(cleanText(feedIn.items[1].desc), feedIn.items[1].fill) > maxSummaryLen
    /\ feedOut.items[1].at = 1

\* ---- the ranking request
\* a is a proper beginning of text b
BeginsWith(b, a) == Len(a) <= Len(b) /\ SubSeq(b, 1, Len(a)) = a

\* C27: the request holds the first min(n, ceiling) items of the input in
\* input order, the ceiling being 20 for 'global' and 15 otherwise; every
\* summary in it is at most 200 bytes long, one that was longer being its
\* first 197 bytes and "..."; title and url are those of the input.
C27_RequestItems ==
    (reqOut.done /\ reqOut.asked) =>
        LET given   == reqIn.items
            out     == reqOut.items
            ceiling == IF reqIn.type = "global" THEN maxArticlesGlobal
                       ELSE maxArticlesDefault
        IN  /\ Len(out) = (IF Len(given) < ceiling THEN Len(given) ELSE ceiling)
            /\ \A k \in DOMAIN out :
                  /\ out[k].at = given[k].at
                  /\ out[k].title = given[k].title /\ out[k].url = given[k].url
                  /\ Bytes(out[k].summary, out[k].fill) <= maxRequestSummary
                  /\ IF Bytes(given[k].summary, given[k].fill) > maxRequestSummary
                     THEN LET kept == SubSeq(out[k].summary, 1, Len(out[k].summary) - 1)
                          IN  /\ out[k].summary[Len(out[k].summary)] = "..."
                              /\ BeginsWith(given[k].summary, kept)
                              /\ out[k].fill <= given[k].fill
                              /\ Bytes(kept, out[k].fill) = keptRequestSummary
                     ELSE out[k].summary = given[k].summary /\ out[k].fill = given[k].fill

\* C27 witness: a request for 'global' made from more than 20 items holds
\* 20, one of them with a summary that was cut
C27_Witness ==
    /\ reqOut.done /\ reqOut.asked /\ reqIn.type = "global"
    /\ Len(reqIn.items) > maxArticlesGlobal
    /\ Len(reqOut.items) = maxArticlesGlobal
    /\ \E k \in DOMAIN reqOut.items :
          Bytes(reqIn.items[k].summary, reqIn.items[k].fill) > maxRequestSummary

\* ---- updateNextRunTime in a time zone
\* C28: NextRun is the earliest 08:00 of the configured zone's wall clock
\* strictly later than the current time: today's 08:00 when the local hour
\* is before 8, the following day's otherwise.
C28_EarliestLocalEight ==
    zoneOut.done =>
        LET z     == zoneIn.zone
            local == WallClock(z, zoneIn.now)
        IN  /\ zoneOut.NextRun.hour = CronHour
            /\ zoneOut.NextRun.day =
                  (IF Hour(local) < CronHour THEN Day(local) ELSE Day(local) + 1)
            /\ zoneOut.next > zoneIn.now
            /\ \A v \in (zoneIn.now + 1)..(zoneOut.next - 1) :
                  Hour(WallClock(z, v)) # CronHour

\* ---- rejected triggers
\* C29 (state part): a trigger that was refused has returned, has called no
\* pipeline stage and has sent no notice
C29_RejectedIdle ==
    \A j \in Jobs :
        outcome[j] = "rejected" => pc[j] = "done" /\ calls[j] = NoCalls

\* C29 (step part): the step that refuses a trigger leaves every JobStatus
\* field, the running flag and the calls made so far unchanged, and a
\* refused trigger takes no further step
C29_RejectStep ==
    \A j \in Jobs :
        /\ (outcome[j] # "rejected" /\ outcome'[j] = "rejected")
              => /\ jobStatus' = jobStatus
                 /\ running' = running
                 /\ calls' = calls
        /\ outcome[j] = "rejected"
              => pc'[j] = pc[j] /\ outcome'[j] = outcome[j] /\ calls'[j] = calls[j]

\* C29: a rejected trigger changes nothing.
C29_RejectedChangesNothing == []C29_RejectedIdle /\ [][C29_RejectStep]_vars

\* C29 witness: the scheduled job was refused while a manual run is in its
\* pipeline
C29_Witness ==
    \E j \in CronJobs, d \in Directs :
        /\ outcome[j] = "rejected"
        /\ pc[d] \in InPipeline
        /\ running[MainSched]
        /\ jobStatus[MainSched].Status = "running"

\* ---- GetJobStatus
\* C30 (state part): the record GetJobStatus returned is a value the
\* JobStatus had while no mutation was in progress
C30_WholeRecord ==
    \A r \in Readers : rd[r].pc = "returned" => Held(r) \in committed

\* C30 (step part): no step changes a record that was returned, except its
\* holder's own write, and that write leaves the Scheduler's JobStatus alone
C30_SnapshotStep ==
    \A r \in Readers :
        /\ (rd[r].pc = "returned" /\ rd'[r].pc = "returned") => Held(r)' = Held(r)
        /\ (rd[r].pc = "returned" /\ rd'[r].pc = "edited") => cell' = cell
        /\ (rd[r].pc = "edited" /\ cell' # cell) => Held(r)' = Held(r)

\* C30: GetJobStatus returns a snapshot.
C30_Snapshot == []C30_WholeRecord /\ [][C30_SnapshotStep]_vars

\* C30 witness: a caller holds a record that GetJobStatus returned during a
\* run, whose mutations have gone on since
C30_Witness ==
    \E r \in Readers :
        /\ rd[r].pc = "returned"
        /\ Held(r).Status = "running"
        /\ cell.Status = "completed"
        /\ wr.held

\* ---- unrecognized categories
\* the texts executeNewsJobByType writes to JobStatus.Error for a category
StatusTexts(types) ==
    {""} \cup {r.err : r \in ScrapeResults} \cup {r.err : r \in CurationResults}
         \cup {DiscordFailure}
         \cup {Sprintf("No ", t, " news items found") : t \in types}
         \cup {Sprintf("No relevant ", t, " news found") : t \in types}

Unrecognized == TypeInputs \ {"ai", "global"}

\* C31 (as claimed): a run for an unrecognized category is observably a run
\* for 'ai': the JobStatus it leaves is one a run for 'ai' (or, other
\* triggers being for it, 'global') leaves.
C31_ObservablyAi ==
    \A s \in Scheds : jobStatus[s].Error \in StatusTexts({"ai", "global"})

\* C31 (amended, state part): every stage treats an unrecognized category
\* as 'ai' (type the sources are fetched for, per-source limit, ranking
\* ceiling, prompt, delivery client), but the texts of JobStatus.Error name
\* the category as it was passed
C31_StagesOfAi ==
    /\ \A t \in Unrecognized :
          /\ NormalType(t) = "ai"
          /\ ItemLimit(NormalType(t)) = maxItemsPerSource
          /\ maxArticles(t) = maxArticlesDefault
          /\ Prompt(t) = Prompt("ai")
          /\ Webhook(t) = "discord"
    /\ \A j \in Jobs :
          (newsType[j] \in Unrecognized /\ calls[j].digest > 0)
              => calls[j].channel = "discord"
    /\ \A s \in Scheds : jobStatus[s].Error \in StatusTexts(TypeInputs)

\* C31 (amended, step part): a trigger is refused only because a run is in
\* progress, whatever its category
C31_RefusedOnlyWhenRunning ==
    \A j \in Jobs :
        (outcome[j] # "rejected" /\ outcome'[j] = "rejected") => running[SchedOf(j)]

\* C31 (amended): an unrecognized category runs the stages of 'ai' and is
\* never refused for its value, but JobStatus.Error names it as passed.
C31_TreatedAsAi == []C31_StagesOfAi /\ [][C31_RefusedOnlyWhenRunning]_vars

\* C31 witness: a run for an unrecognized category sent its digest with the
\* default client
C31_Witness ==
    \E j \in Jobs :
        /\ newsType[j] \in Unrecognized
        /\ outcome[j] = "accepted"
        /\ calls[j].digest > 0 /\ calls[j].channel = "discord"

\* ---- cleanText
\* the output has no newline, no tab, no white space at either end and no
\* two consecutive spaces
CleanSpacing ==
    cleanOut.done =>
        LET out == cleanOut.text
        IN  /\ \A i \in DOMAIN out : out[i] \notin {"\n", "\t"}
            /\ out # <<>> => out[1] # " " /\ out[Len(out)] # " "
            /\ ~ContainsString(out, <<" ", " ">>)

\* C32: the output of cleanText has no newline, no tab, no leading or
\* trailing white space, no two consecutive spaces and no occurrence of a
\* tag of the stripped set, for every input.
C32_CleanOutput ==
    /\ CleanSpacing
    /\ cleanOut.done =>
           /\ ~ContainsString(cleanOut.text, TagP)
           /\ ~ContainsString(cleanOut.text, TagEndP)

\* ---- release of the single-flight guard
\* C33 (state part): the flag of a Scheduler is set only while an accepted
\* run of that Scheduler is between the guard and its deferred function
C33_GuardHasRun ==
    \A s \in Scheds :
        running[s] => \E j \in Jobs : /\ SchedOf(j) = s
                                      /\ outcome[j] = "accepted"
                                      /\ pc[j] \in InRun

\* C33 (step part): the step by which an accepted run ends leaves the flag
\* false, and a trigger that finds the flag false is accepted
C33_ReleaseStep ==
    \A j \in Jobs :
        /\ (pc[j] \in InRun /\ pc'[j] \notin InRun) => ~running'[SchedOf(j)]
        /\ (pc[j] = "guard" /\ pc'[j] # "guard" /\ ~running[SchedOf(j)])
              => outcome'[j] = "accepted" /\ running'[SchedOf(j)]

\* C33 (progress part): an accepted run, whatever its stages return, is
\* followed by a state in which it has ended and left the flag false
C33_RunEnds ==
    \A j \in Jobs :
        (outcome[j] = "accepted" /\ pc[j] \in InRun)
            ~> (pc[j] \notin InRun /\ ~running[SchedOf(j)])

\* C33: every accepted run releases the single-flight guard when it ends,
\* whatever its outcome, on the manual and on the scheduled path, so that a
\* later trigger is accepted; the guard is never set with no run in progress.
C33_GuardReleased ==
    /\ []C33_GuardHasRun
    /\ [][C33_ReleaseStep]_vars
    /\ C33_RunEnds

\* C33 witness: the scheduled run failed, sent its notice and released the
\* guard, and the manual trigger that came later was accepted
C33_Witness ==
    \E c \in CronJobs, d \in Directs :
        /\ outcome[c] = "accepted"
        /\ pc[c] \in {"nextrun", "done"}
        /\ jobStatus[MainSched].Status = "failed"
        /\ outcome[d] = "accepted"
        /\ pc[d] = "begin"
        /\ running[MainSched]

\* ---- termination of ScrapeNewsByType
\* C34 (state part): a goroutine whose fetch failed finds room in the error
\* channel, the call returns only when every goroutine is done, and by then
\* every source that did not fail has its items in the merged buffer
C34_NothingBlocks ==
    /\ \A src \in Sources :
          spc[src] = "fetch" => ENABLED FetchReturn(src)
    /\ Len(errChan) <= Cardinality({src \in Sources : spc[src] = "done" /\ ~srcOut[src].ok})
    /\ scrapeRet.done =>
          /\ \A src \in Sources : spc[src] = "done"
          /\ \A src \in Yielding :
                \E i \in DOMAIN allNews : allNews[i].source = src

\* C34 (step part): the step of a failing source changes only the error
\* channel and that source's own position
C34_FailureStep ==
    \A src \in Sources :
        (spc[src] = "fetch" /\ spc'[src] = "done")
            => /\ allNews' = allNews
               /\ mu' = mu
               /\ \A o \in Sources \ {src} : spc'[o] = spc[o]

\* C34: ScrapeNewsByType terminates once every per-source fetch has
\* returned: no goroutine blocks on reporting its error, the join waits for
\* all of them, and a failing source neither cancels nor delays the
\* recording of the others' results.
C34_Terminates ==
    /\ []C34_NothingBlocks
    /\ [][C34_FailureStep]_vars
    /\ <>scrapeRet.done

\* C34 witness: every source but one failed, the error channel was filled
\* up to one place, and the call returned the items of the remaining source
C34_Witness ==
    /\ scrapeRet.done
    /\ Cardinality(Failing) = NumSources - 1
    /\ Len(scrapeRet.errors) = NumSources - 1
    /\ scrapeRet.err = ""
    /\ Len(scrapeRet.items) = 1

\* ---- the JobStatus after a run
\* C35 (state part): a 'success' status has no error text and counts between
\* one and maxNewsItems items; a 'failed' status with a count above zero
\* carries the error of the delivery
C35_StatusFields ==
    \A s \in Scheds :
        /\ jobStatus[s].Status = "success"
              => /\ jobStatus[s].Error = ""
                 /\ 1 <= jobStatus[s].NewsCount
                 /\ jobStatus[s].NewsCount <= maxNewsItems
        /\ (jobStatus[s].Status = "failed" /\ jobStatus[s].NewsCount > 0)
              => jobStatus[s].Error = DiscordFailure

\* C35 (step part): a step that brings 'failed' with a count above zero is
\* the return of the delivery call of a run of that Scheduler, and the count
\* is the number of items handed to the delivery
C35_FailedCountStep ==
    \A s \in Scheds :
        (/\ <<jobStatus'[s].Status, jobStatus'[s].NewsCount>>
                # <<jobStatus[s].Status, jobStatus[s].NewsCount>>
         /\ jobStatus'[s].Status = "failed"
         /\ jobStatus'[s].NewsCount > 0)
            => \E j \in Jobs : /\ SchedOf(j) = s
                               /\ pc[j] = "discord"
                               /\ pc'[j] # "discord"
                               /\ jobStatus'[s].NewsCount = count[j]

\* C35: Status 'success' implies an empty Error and a NewsCount between 1
\* and maxNewsItems; Status 'failed' with NewsCount above 0 occurs only when
\* the failing stage was the delivery.
C35_SuccessAndFailedCounts == []C35_StatusFields /\ [][C35_FailedCountStep]_vars

\* C35 witness: a run whose ranking response was cut to maxNewsItems items
\* failed in the delivery, and its status counts maxNewsItems items
C35_Witness ==
    /\ jobStatus[MainSched].Status = "failed"
    /\ jobStatus[MainSched].NewsCount = maxNewsItems
    /\ jobStatus[MainSched].Error = DiscordFailure

\* ---- Status 'running' and the guard
\* C36 (state part): while the Status of a Scheduler is 'running' its flag
\* is set and a run of that Scheduler is between the first status write of
\* the pipeline and the return of one of its stages
C36_RunningHasRun ==
    \A s \in Scheds :
        jobStatus[s].Status = "running"
            => /\ running[s]
               /\ \E j \in Jobs : /\ SchedOf(j) = s
                                  /\ pc[j] \in {"scrape", "ai", "discord"}

\* C36 (step part): when the deferred function clears the flag the Status
\* is no longer 'running', and a trigger is accepted only while the Status
\* is not 'running'
C36_TerminalBeforeRelease ==
    \A s \in Scheds :
        /\ (running[s] /\ ~running'[s])
              => jobStatus[s].Status # "running" /\ jobStatus'[s].Status # "running"
        /\ (~running[s] /\ running'[s]) => jobStatus[s].Status # "running"

\* C36: Status 'running' implies the running flag: every return path of the
\* pipeline writes a non-running status before the guard is released, so
\* no observer sees 'running' while a new trigger would be accepted.
C36_RunningImpliesGuard == []C36_RunningHasRun /\ [][C36_TerminalBeforeRelease]_vars

\* C36 witness: a run failed in a stage, the Status is 'failed' and the
\* flag is still set before the deferred function runs
C36_Witness ==
    \E j \in Jobs :
        /\ pc[j] = "release"
        /\ running[SchedOf(j)]
        /\ jobStatus[SchedOf(j)].Status = "failed"
        /\ jobStatus[SchedOf(j)].NewsCount = 0

\* ---- curation of an empty and of a non-empty input
\* C37: given an empty item list, curation (the Processor, and the client
\* called by itself) returns an empty result without an error and without
\* invoking the ranking service, whatever the service would have answered.
C37_EmptyInEmptyOut ==
    (reqOut.done /\ Len(reqIn.items) = 0) =>
        /\ ~reqOut.asked
        /\ reqOut.client = [asked |-> FALSE, err |-> "", news |-> <<>>]
        /\ ~reqOut.processor.called /\ ~reqOut.processor.asked
        /\ reqOut.processor.err = "" /\ reqOut.processor.news = <<>>

\* C37 witness: the call was made with no items for the type 'global'
C37_Witness ==
    /\ reqOut.done
    /\ reqIn.items = <<>>
    /\ reqIn.type = "global"
    /\ reqOut.items = <<>>

\* C38: after ProcessNewsByType returns, every item of the caller's item
\* sequence, its summary included, is what it was before the call.
C38_InputUntouched ==
    reqOut.done => reqOut.caller = reqIn.items

====
